---- MODULE Spec2Model ----
(***************************************************************************)
(* Model of the strided grid / view abstraction of src/src/grid.rs         *)
(* (GridView, Grid, PointIter) and of the Point arithmetic it uses         *)
(* (src/src/point.rs).                                                     *)
(*                                                                         *)
(* Points and per-dimension arrays are sequences of length N; index i of   *)
(* the source (0-based) is index i+1 here.  Storage (Vec<T> / [T]) is a    *)
(* sequence; storage index k of the source is position k+1 here.           *)
(***************************************************************************)
EXTENDS Integers, Sequences, FiniteSets, TLC

(***************************************************************************)
(* Bounds of the model.                                                    *)
(***************************************************************************)
\* largest extent per dimension handed to from_size for N = 2
MaxExtent == 3
\* largest extent per dimension handed to from_size for N = 3
MaxExtent3 == 2
\* longest buffer handed to the 2D from_data
MaxLen == 6
\* largest stride handed to the 2D from_data
MaxStride == 3
\* most lines / longest line handed to from_lines
MaxLines == 2
MaxLineLen == 2
\* longest buffer handed to from_bytes
MaxBytes == 4
\* successful set calls per run
MaxSets == 1
\* points a PointIter is asked for beyond the number of cells of its grid
MaxExtraYield == 2
\* largest offset component and extent handed to view
MaxViewOffset == 1
MaxViewExtent == 2
\* largest extent per dimension of the shapes whose row-major strides are
\* handed to the generic from_data, and its longest buffer
MaxShape == 2
MaxGenLen == 8
\* largest number of dimensions N of a Point / Direction (besides those at
\* half the range of u8)
MaxDim == 4
\* largest capacity N of a StackVec, and the largest value pushed
MaxCap == 3
MaxVal == 2
\* u64, the representation of a Bcd, is modelled BcdNibbles nibbles wide (16
\* in the build); the values converted have at most BcdNibbles decimal digits
BcdNibbles == 4
\* longest example text and longest expected string handed to Part::check
MaxTextLen == 3
MaxExpectedLen == 2
\* the steps k added to a direction are -MaxStep..MaxStep
MaxStep == 2

\* the small left operands of the Bcd operators are 0..MaxOperand
MaxOperand == 120

\* the filters are of at most MaxFilterLen characters
MaxFilterLen == 5

\* check_answer is called MaxChecks times a day, with the numbers Num(0..MaxNum)
MaxChecks == 2
MaxNum == 3

\* usize / isize are modelled WordBits wide (64 in the build); every
\* coordinate, stride and length of the model is far below 2^(WordBits-1),
\* so casts and wrap-around behave as they do at 64 bits
WordBits == 16

(***************************************************************************)
(* Program constants.                                                      *)
(***************************************************************************)
\* b'\n'
NewLine == 10
\* T::default() of the numeric element types
Default == 0
\* the width of u8, the representation of a Direction
U8Bits == 8
\* b' ', a whitespace character str::trim removes besides '\n'
Space == 32

\* the characters of a filter, and the number of days
Comma == 44
Dot == 46
Plus == 43
Minus == 45
Digit0 == 48
NumDays == 25
\* the characters of the answer log
Equals == 61
Greater == 62
Less == 60
Bang == 33
CarriageReturn == 13

UsizeModulus == 2 ^ WordBits

VARIABLES
    overflow_checks,  \* build profile: TRUE = debug (overflow panics), FALSE = release (wraps)
    heap,             \* the live storage buffers, heap[b] the contents of buffer b
    G,                \* the owning Grid
    V,                \* a GridView made by G.view(..), or NoView
    V2,               \* a GridView made by V.view(..), or NoView
    iter,             \* a PointIter, or NoIter
    yielded,          \* the points the PointIter has returned so far
    nones,            \* the number of None results the PointIter has returned
    last,             \* the last call and what it returned
    built,            \* the constructor call that made G
    nsets,            \* successful set calls so far
    panicked,         \* the thread has panicked
    args,             \* the arguments of a call of a function of point.rs, direction.rs, bcd.rs
    result,           \* what that call returned, or NoResult before it is made
    sv,               \* a StackVec, or NoStackVec
    output_file,      \* the answer log of the day: None while there is no file, or Some(bytes)
    traffic           \* the calls of check_answer so far and what they exchanged with the service

vars == <<overflow_checks, heap, G, V, V2, iter, yielded, nones, last, built, nsets, panicked,
          args, result, sv, output_file, traffic>>

\* the variables of the grid runs, and those of the runs of the other modules
gridVars == <<heap, G, V, V2, iter, yielded, nones, last, built, nsets>>
libVars == <<args, result, sv, output_file, traffic>>
fileVars == <<output_file, traffic>>

NoArgs == [fn |-> "none"]
NoResult == [done |-> FALSE]
\* no answer log, and no call of check_answer yet
NoFile ==
    /\ output_file = <<>>
    /\ traffic = [checks |-> 0, posts |-> {}, gets |-> 0]

NoStackVec == [present |-> FALSE, data |-> <<>>, len |-> 0]

(***************************************************************************)
(* Option<T>: None is <<>>, Some(x) is <<x>>.                              *)
(***************************************************************************)
None == <<>>
Some(x) == <<x>>

Min(a, b) == IF a <= b THEN a ELSE b

RECURSIVE Product(_)
Product(s) == IF Len(s) = 0 THEN 1 ELSE Head(s) * Product(Tail(s))

(***************************************************************************)
(* point.rs                                                                *)
(***************************************************************************)
\* Point::default()
Point_default(n) == [i \in 1..n |-> 0]

\* Point::unit()
Point_unit(n) == [i \in 1..n |-> 1]

\* Point + Point (combine zips the two arrays)
Point_add(l, r) == [i \in 1..Min(Len(l), Len(r)) |-> l[i] + r[i]]

\* Point - Point
Point_sub(l, r) == [i \in 1..Min(Len(l), Len(r)) |-> l[i] - r[i]]

(***************************************************************************)
(* Integer casts.                                                          *)
(***************************************************************************)
\* `x as usize` of an isize x
as_usize(x) == x % UsizeModulus

\* `x as isize` of a usize x
as_isize(x) == IF x >= UsizeModulus \div 2 THEN x - UsizeModulus ELSE x

(***************************************************************************)
(* Cow<[T]>: [owned, buf]; buf names a buffer of the heap.                 *)
(***************************************************************************)
Cow_Owned(b) == [owned |-> TRUE, buf |-> b]
Cow_Borrowed(b) == [owned |-> FALSE, buf |-> b]

\* a clone that shares the buffer of an Owned handle instead of copying it
Cow_clone_shared(c, h) == [cow |-> c, heap |-> h]

\* Cow::clone: an Owned handle clones its buffer (a new allocation, placed
\* at the end of the heap), a Borrowed one copies the reference.
\* Returns the new handle and the new heap.
Cow_clone(c, h) ==
    IF c.owned
    THEN [cow |-> Cow_Owned(Len(h) + 1), heap |-> Append(h, h[c.buf])]
    ELSE [cow |-> Cow_Borrowed(c.buf), heap |-> h]

\* Cow::to_mut: a Borrowed handle clones the buffer and becomes Owned.
Cow_to_mut(c, h) ==
    IF c.owned
    THEN [cow |-> c, heap |-> h]
    ELSE [cow |-> Cow_Owned(Len(h) + 1), heap |-> Append(h, h[c.buf])]

(***************************************************************************)
(* GridView<T, N>                                                          *)
(***************************************************************************)
GridView(grid, stride, offset, size) ==
    [present |-> TRUE, grid |-> grid, stride |-> stride, offset |-> offset, size |-> size]

\* no grid / no view (construction panicked, or no view was made)
NoView == [present |-> FALSE, grid |-> Cow_Borrowed(0), stride |-> <<>>, offset |-> <<>>, size |-> <<>>]

\* the contents of the storage a view reads
data(self, h) == h[self.grid.buf]

\* in_bounds with the upper comparison off by one (<= for <)
in_bounds_inclusive(self, p) ==
    \A i \in 1..Min(Len(p), Len(self.size)) : p[i] >= 0 /\ p[i] <= self.size[i]

in_bounds(self, p) ==
    \A i \in 1..Min(Len(p), Len(self.size)) : p[i] >= 0 /\ p[i] < self.size[i]

\* sum over the dimensions i >= 1 (0-based) of comp * stride
RECURSIVE StrideSum(_, _, _)
StrideSum(components, stride, i) ==
    IF i > Min(Len(components), Len(stride)) THEN 0
    ELSE components[i] * stride[i] + StrideSum(components, stride, i + 1)

\* data_offset that forgets the view's offset
data_offset_no_offset(self, p) ==
    LET first == as_usize(p[1])
        rest == as_usize(StrideSum(p, self.stride, 2))
    IN  [index |-> (first + rest) % UsizeModulus, overflow |-> first + rest >= UsizeModulus]

\* data_offset: [index, overflow]; overflow says the final usize addition
\* exceeded the word, where a build with overflow checks panics and one
\* without wraps to index
data_offset(self, p) ==
    LET components == Point_add(p, self.offset)
        first == as_usize(components[1])
        rest == as_usize(StrideSum(components, self.stride, 2))
    IN  [index |-> (first + rest) % UsizeModulus, overflow |-> first + rest >= UsizeModulus]

\* offset_to_point, dimensions taken from the last to the first:
\* [point, div0]; div0 says a stride was 0 (division by zero panics)
RECURSIVE offset_to_point_from(_, _, _, _)
offset_to_point_from(stride, off, i, p) ==
    IF i = 0 THEN [point |-> p, div0 |-> FALSE]
    ELSE IF stride[i] = 0 THEN [point |-> p, div0 |-> TRUE]
    ELSE offset_to_point_from(stride, off % stride[i], i - 1,
                              [p EXCEPT ![i] = as_isize(off \div stride[i])])

offset_to_point(self, off) ==
    offset_to_point_from(self.stride, off, Len(self.stride), Point_default(Len(self.stride)))

\* <[T]>::get
slice_get(s, k) == IF k < Len(s) THEN Some(s[k + 1]) ELSE None

\* get without the bounds check
get_unchecked(self, h, p) ==
    LET components == Point_add(p, self.offset)
        first == as_usize(components[1])
        rest == as_usize(StrideSum(components, self.stride, 2))
    IN  IF first + rest >= UsizeModulus /\ overflow_checks THEN [panic |-> TRUE, ret |-> None]
        ELSE [panic |-> FALSE, ret |-> slice_get(h[self.grid.buf], (first + rest) % UsizeModulus)]

\* get: [panic, ret]
get(self, h, p) ==
    IF ~in_bounds(self, p) THEN [panic |-> FALSE, ret |-> None]
    ELSE LET d == data_offset(self, p)
         IN  IF d.overflow /\ overflow_checks THEN [panic |-> TRUE, ret |-> None]
             ELSE [panic |-> FALSE, ret |-> slice_get(data(self, h), d.index)]

\* set that writes one element too low (and nothing at position 0)
set_off_by_one(self, h, index, val) ==
    IF ~in_bounds(self, index)
    THEN [panic |-> FALSE, ret |-> FALSE, self |-> self, heap |-> h]
    ELSE LET d == data_offset(self, index)
         IN  IF d.overflow /\ overflow_checks
             THEN [panic |-> TRUE, ret |-> FALSE, self |-> self, heap |-> h]
             ELSE LET m == Cow_to_mut(self.grid, h)
                      own == [self EXCEPT !.grid = m.cow]
                      pos == d.index
                  IN  IF pos < Len(m.heap[m.cow.buf])
                      THEN [panic |-> FALSE, ret |-> TRUE, self |-> own,
                            heap |-> IF pos = 0 THEN m.heap
                                     ELSE [m.heap EXCEPT ![m.cow.buf][pos] = val]]
                      ELSE [panic |-> FALSE, ret |-> FALSE, self |-> own, heap |-> m.heap]

\* set: [panic, ret, self, heap]
set(self, h, index, val) ==
    IF ~in_bounds(self, index)
    THEN [panic |-> FALSE, ret |-> FALSE, self |-> self, heap |-> h]
    ELSE LET d == data_offset(self, index)
         IN  IF d.overflow /\ overflow_checks
             THEN [panic |-> TRUE, ret |-> FALSE, self |-> self, heap |-> h]
             ELSE LET m == Cow_to_mut(self.grid, h)
                      own == [self EXCEPT !.grid = m.cow]
                      pos == d.index
                  IN  IF pos < Len(m.heap[m.cow.buf])
                      THEN [panic |-> FALSE, ret |-> TRUE, self |-> own,
                            heap |-> [m.heap EXCEPT ![m.cow.buf][pos + 1] = val]]
                      ELSE [panic |-> FALSE, ret |-> FALSE, self |-> own, heap |-> m.heap]

(***************************************************************************)
(* Constructors.  Each returns [panic, data, stride, size]; the grid is    *)
(* GridView(Cow_Owned(buffer of data), stride, Point_default, size).       *)
(***************************************************************************)
\* Grid::from_size
from_size(size) ==
    [panic |-> FALSE,
     data |-> [k \in 1..Product(size) |-> Default],
     stride |-> [i \in 1..Len(size) |-> IF i = 1 THEN 1 ELSE size[i - 1]],
     size |-> [i \in 1..Len(size) |-> size[i]]]

\* the 2D from_data with the height rounded up
Grid2_from_data_ceil(d, stride) ==
    IF stride = 0
    THEN [panic |-> TRUE, data |-> d, stride |-> <<1, stride>>, size |-> <<0, 0>>]
    ELSE [panic |-> FALSE, data |-> d, stride |-> <<1, stride>>,
          size |-> <<stride, (Len(d) + stride - 1) \div stride>>]

\* the 2D from_data with width and height exchanged
Grid2_from_data_swapped(d, stride) ==
    IF stride = 0
    THEN [panic |-> TRUE, data |-> d, stride |-> <<1, stride>>, size |-> <<0, 0>>]
    ELSE [panic |-> FALSE, data |-> d, stride |-> <<1, stride>>,
          size |-> <<Len(d) \div stride, stride>>]

\* Grid::<T, 2>::from_data
Grid2_from_data(d, stride) ==
    IF stride = 0
    THEN [panic |-> TRUE, data |-> d, stride |-> <<1, stride>>, size |-> <<0, 0>>]
    ELSE [panic |-> FALSE, data |-> d, stride |-> <<1, stride>>,
          size |-> <<stride, Len(d) \div stride>>]

\* the for_each of the generic from_data over the dimensions i, i-1, .., 1:
\* [size, div0]; div0 says a stride was 0 (division by zero panics)
RECURSIVE from_data_sizes(_, _, _, _)
from_data_sizes(stride, len, i, size) ==
    IF i = 0 THEN [size |-> size, div0 |-> FALSE]
    ELSE IF stride[i] = 0 THEN [size |-> size, div0 |-> TRUE]
    ELSE from_data_sizes(stride, len % stride[i], i - 1,
                         [size EXCEPT ![i] = as_isize(len \div stride[i])])

\* GridView::from_data (N dimensions)
GridView_from_data(d, stride) ==
    LET r == from_data_sizes(stride, Len(d), Len(stride), [i \in 1..Len(stride) |-> 0])
    IN  [panic |-> r.div0, data |-> d, stride |-> stride, size |-> r.size]

\* the largest line length; 0 stands for no line at all
RECURSIVE MaxLineLength(_)
MaxLineLength(lines) ==
    IF Len(lines) = 0 THEN 0
    ELSE LET m == MaxLineLength(Tail(lines))
         IN  IF Len(Head(lines)) >= m THEN Len(Head(lines)) ELSE m

\* the flat_map of from_lines without the padding
RECURSIVE PadLines_unpadded(_, _, _)
PadLines_unpadded(lines, f, w) ==
    IF Len(lines) = 0 THEN <<>>
    ELSE LET line == Head(lines)
         IN  [c \in 1..Len(line) |-> f[line[c]]] \o PadLines_unpadded(Tail(lines), f, w)

\* the flat_map of from_lines: each line mapped through f and padded to w
RECURSIVE PadLines(_, _, _)
PadLines(lines, f, w) ==
    IF Len(lines) = 0 THEN <<>>
    ELSE LET line == Head(lines)
         IN  [c \in 1..Len(line) |-> f[line[c]]]
             \o [c \in 1..(w - Len(line)) |-> Default]
             \o PadLines(Tail(lines), f, w)

\* Grid::from_lines
from_lines(lines, f) ==
    IF Len(lines) = 0
    THEN [panic |-> TRUE, data |-> <<>>, stride |-> <<1, 0>>, size |-> <<0, 0>>]
    ELSE LET w == MaxLineLength(lines)
         IN  Grid2_from_data(PadLines(lines, f, w), w)

\* position of the first b in s (0-based), or Len(s)
RECURSIVE PositionOr(_, _, _)
PositionOr(s, b, k) ==
    IF k >= Len(s) THEN Len(s)
    ELSE IF s[k + 1] = b THEN k
    ELSE PositionOr(s, b, k + 1)

\* from_bytes with the stride of a buffer without delimiters
from_bytes_no_delimiter(d) ==
    LET length == PositionOr(d, NewLine, 0)
        stride == length
        height == IF stride = 0 THEN 0 ELSE (Len(d) + 1) \div stride
    IN  [panic |-> stride = 0, data |-> d, stride |-> <<1, stride>>, size |-> <<length, height>>]

\* Grid::<u8, 2>::from_bytes
from_bytes(d) ==
    LET length == PositionOr(d, NewLine, 0)
        stride == length + 1
        height == (Len(d) + 1) \div stride
    IN  [panic |-> FALSE, data |-> d, stride |-> <<1, stride>>, size |-> <<length, height>>]

(***************************************************************************)
(* PointIter<N>                                                            *)
(***************************************************************************)
PointIter(size, cur, done) == [present |-> TRUE, size |-> size, cur |-> cur, done |-> done]

NoIter == [present |-> FALSE, size |-> <<>>, cur |-> <<>>, done |-> FALSE]

\* GridView::points_iter
points_iter(self) ==
    PointIter(Point_sub(self.size, Point_unit(Len(self.size))),
              Point_default(Len(self.size)), FALSE)

\* the loop of next run over the dimensions first to last (no .rev())
RECURSIVE advance_forward_from(_, _, _)
advance_forward_from(next, size, i) ==
    IF i > Min(Len(next), Len(size)) THEN [cur |-> next, incremented |-> FALSE]
    ELSE IF next[i] = size[i] THEN advance_forward_from([next EXCEPT ![i] = 0], size, i + 1)
    ELSE [cur |-> [next EXCEPT ![i] = next[i] + 1], incremented |-> TRUE]

advance_forward(next, size, i) == advance_forward_from(next, size, 1)

\* the loop of PointIter::next over the dimensions i, i-1, .., 1:
\* [cur, incremented]
RECURSIVE advance(_, _, _)
advance(next, size, i) ==
    IF i = 0 THEN [cur |-> next, incremented |-> FALSE]
    ELSE IF next[i] = size[i] THEN advance([next EXCEPT ![i] = 0], size, i - 1)
    ELSE [cur |-> [next EXCEPT ![i] = next[i] + 1], incremented |-> TRUE]

\* PointIter::next: [self, ret]
PointIter_next(self) ==
    IF self.done THEN [self |-> self, ret |-> None]
    ELSE LET a == advance(self.cur, self.size, Min(Len(self.cur), Len(self.size)))
         IN  [self |-> [self EXCEPT !.cur = a.cur, !.done = ~a.incremented],
              ret |-> Some(self.cur)]

(***************************************************************************)
(* Inputs of the runs.                                                     *)
(***************************************************************************)
\* the values handed to set
SetVals == {99}

\* the k-th content byte of a text input: 'A', 'B', ..
ContentByte(k) == 65 + k

\* the transform handed to from_lines: 'A' -> 1, 'B' -> 2, ..
Transform == [b \in 0..255 |-> IF b >= 65 THEN b - 64 ELSE b + 100]

\* a buffer whose elements are all different, and different from Default
Ramp(n) == [k \in 1..n |-> k]

\* the arguments of a constructor call
Call(fn, size, d, stride, lines) ==
    [fn |-> fn, size |-> size, data |-> d, stride |-> stride, lines |-> lines]

FromSizeCalls ==
    {Call("from_size", s, <<>>, 0, <<>>) : s \in [1..2 -> 0..MaxExtent] \cup [1..3 -> 0..MaxExtent3]}

FromDataCalls ==
    {Call("from_data", <<>>, Ramp(n), s, <<>>) : n \in 0..MaxLen, s \in 0..MaxStride}
    \cup {Call("from_data", <<>>, <<0, 0, 0, 0>>, 2, <<>>),
          Call("from_data", <<>>, Ramp(16), 4, <<>>)}

\* the lines whose lengths are lens: the content bytes 'A', 'B', .. in order
RECURSIVE LinesOf(_, _)
LinesOf(lens, start) ==
    IF Len(lens) = 0 THEN <<>>
    ELSE <<[c \in 1..Head(lens) |-> ContentByte(start + c - 1)]>>
         \o LinesOf(Tail(lens), start + Head(lens))

FromLinesCalls ==
    {Call("from_lines", <<>>, <<>>, 0, LinesOf(lens, 0)) :
        lens \in UNION {[1..k -> 0..MaxLineLen] : k \in 0..MaxLines}}

FromBytesCalls ==
    UNION {{Call("from_bytes", <<>>,
                 [k \in 1..n |-> IF k \in nl THEN NewLine ELSE ContentByte(k - 1)], 0, <<>>) :
              nl \in SUBSET (1..n)} : n \in 0..MaxBytes}

\* row-major strides of a shape: 1, size[0], size[0] * size[1], ..
RECURSIVE RowMajor(_, _)
RowMajor(size, i) == IF i = 1 THEN 1 ELSE size[i - 1] * RowMajor(size, i - 1)

\* the generic from_data handed the row-major strides of a shape (kept in
\* the size field of the call) and a buffer of any length up to MaxGenLen
GenericFromDataCalls ==
    {Call("GridView::from_data", shape, Ramp(n), [i \in 1..Len(shape) |-> RowMajor(shape, i)], <<>>) :
        shape \in [1..2 -> 0..MaxShape] \cup [1..3 -> 0..MaxShape], n \in 0..MaxGenLen}

Calls == FromSizeCalls \cup FromDataCalls \cup FromLinesCalls \cup FromBytesCalls

\* the constructor call c carried out
Construct(c) ==
    CASE c.fn = "from_size" -> from_size(c.size)
      [] c.fn = "from_data" -> Grid2_from_data(c.data, c.stride)
      [] c.fn = "from_lines" -> from_lines(c.lines, Transform)
      [] c.fn = "GridView::from_data" -> GridView_from_data(c.data, c.stride)
      [] OTHER -> from_bytes(c.data)

\* the points a caller probes: one step beyond the extent on every side
Probes(self) ==
    IF ~self.present THEN {}
    ELSE IF Len(self.size) = 2
    THEN {<<x, y>> : x \in -1..self.size[1], y \in -1..self.size[2]}
    ELSE {<<x, y, z>> : x \in -1..self.size[1], y \in -1..self.size[2], z \in -1..self.size[3]}

NoCall ==
    [op |-> "none", target |-> "G", p |-> <<>>, val |-> 0, panic |-> FALSE,
     ret_opt |-> None, ret_bool |-> FALSE, ret_off |-> 0, ret_pt |-> <<>>]

\* the grid or view a call goes to
Target(t) == IF t = "G" THEN G ELSE IF t = "V" THEN V ELSE V2

(***************************************************************************)
(* Initial states: a build profile and one constructor call.               *)
(***************************************************************************)
InitWith(calls) ==
    /\ overflow_checks \in BOOLEAN
    /\ \E c \in calls :
          LET r == Construct(c)
          IN  /\ built = c
              /\ panicked = r.panic
              /\ heap = IF r.panic THEN <<>> ELSE <<r.data>>
              /\ G = IF r.panic THEN NoView
                     ELSE GridView(Cow_Owned(1), r.stride, Point_default(Len(r.size)), r.size)
    /\ V = NoView
    /\ V2 = NoView
    /\ iter = NoIter
    /\ yielded = <<>>
    /\ nones = 0
    /\ last = NoCall
    /\ nsets = 0
    /\ args = NoArgs
    /\ result = NoResult
    /\ sv = NoStackVec
    /\ NoFile

Init == InitWith(Calls)

(***************************************************************************)
(* Calls on a grid or a view.  A call leaves its result in `last`; the     *)
(* caller takes the result (Consume) before it makes its next call, or     *)
(* hands it on as the argument of the next call (DoOffsetToPoint).         *)
(***************************************************************************)
Idle == last.op = "none"

Consume ==
    /\ ~panicked
    /\ ~Idle
    /\ last' = NoCall
    /\ UNCHANGED <<libVars, overflow_checks, built, V2, heap, G, V, iter, yielded, nones, nsets, panicked>>

DoGet(t, p) ==
    /\ ~panicked
    /\ Idle
    /\ Target(t).present
    /\ LET r == get(Target(t), heap, p)
       IN  /\ last' = [NoCall EXCEPT !.op = "get", !.target = t, !.p = p,
                                     !.panic = r.panic, !.ret_opt = r.ret]
           /\ panicked' = r.panic
    /\ UNCHANGED <<libVars, overflow_checks, built, V2, heap, G, V, iter, yielded, nones, nsets>>

\* a set on G needs G unborrowed: no view of it is alive
DoSet(t, p, val) ==
    /\ ~panicked
    /\ Idle
    /\ Target(t).present
    /\ t = "G" => ~V.present
    /\ nsets < MaxSets
    /\ LET r == set(Target(t), heap, p, val)
       IN  /\ last' = [NoCall EXCEPT !.op = "set", !.target = t, !.p = p, !.val = val,
                                     !.panic = r.panic, !.ret_bool = r.ret]
           /\ panicked' = r.panic
           /\ heap' = r.heap
           /\ G' = IF t = "G" THEN r.self ELSE G
           /\ V' = IF t = "V" THEN r.self ELSE V
           /\ nsets' = IF r.ret THEN nsets + 1 ELSE nsets
    /\ UNCHANGED <<libVars, overflow_checks, built, V2, iter, yielded, nones>>

DoDataOffset(t, p) ==
    /\ ~panicked
    /\ Idle
    /\ Target(t).present
    /\ LET d == data_offset(Target(t), p)
           pan == d.overflow /\ overflow_checks
       IN  /\ last' = [NoCall EXCEPT !.op = "data_offset", !.target = t, !.p = p,
                                     !.panic = pan, !.ret_off = d.index]
           /\ panicked' = pan
    /\ UNCHANGED <<libVars, overflow_checks, built, V2, heap, G, V, iter, yielded, nones, nsets>>

\* offset_to_point applied to the result of the data_offset call before it
DoOffsetToPoint(t) ==
    /\ ~panicked
    /\ Target(t).present
    /\ last.op = "data_offset"
    /\ last.target = t
    /\ LET r == offset_to_point(Target(t), last.ret_off)
       IN  /\ last' = [last EXCEPT !.op = "offset_to_point", !.panic = r.div0,
                                   !.ret_pt = r.point]
           /\ panicked' = r.div0
    /\ UNCHANGED <<libVars, overflow_checks, built, V2, heap, G, V, iter, yielded, nones, nsets>>

Next ==
    \/ Idle /\ \E p \in Probes(G) : DoGet("G", p)
    \/ Idle /\ \E p \in Probes(G), val \in SetVals : DoSet("G", p, val)
    \/ Idle /\ \E p \in Probes(G) : DoDataOffset("G", p)
    \/ DoOffsetToPoint("G")
    \/ Consume

Spec == Init /\ [][Next]_vars

\* the runs on a grid made by the generic from_data
InitGeneric == InitWith(GenericFromDataCalls)

SpecGeneric == InitGeneric /\ [][Next]_vars

(***************************************************************************)
(* Views.                                                                  *)
(***************************************************************************)
\* view with the offset taken relative to the view sliced
view_relative(self, h, offset, size) ==
    LET c == Cow_clone(self.grid, h)
    IN  [view |-> GridView(c.cow, self.stride, Point_add(self.offset, offset), size),
         heap |-> c.heap]

\* GridView::<T, 2>::view: [view, heap]
view(self, h, offset, size) ==
    LET c == Cow_clone(self.grid, h)
    IN  [view |-> GridView(c.cow, self.stride, offset, size), heap |-> c.heap]

ViewOffsets == {<<x, y>> : x \in -1..MaxViewOffset, y \in -1..MaxViewOffset}
ViewSizes == {<<w, h>> : w \in 0..MaxViewExtent, h \in 0..MaxViewExtent}

\* V = G.view(offset, size)
View(offset, size) ==
    /\ ~panicked
    /\ Idle
    /\ G.present
    /\ Len(G.size) = 2
    /\ ~V.present
    /\ LET r == view(G, heap, offset, size)
       IN  /\ V' = r.view
           /\ heap' = r.heap
    /\ UNCHANGED <<libVars, overflow_checks, built, V2, G, iter, yielded, nones, last, nsets, panicked>>

\* V goes out of scope; the storage it owns (the last allocation) is freed
DropView ==
    /\ ~panicked
    /\ Idle
    /\ V.present
    /\ V' = NoView
    /\ heap' = IF V.grid.owned THEN SubSeq(heap, 1, Len(heap) - 1) ELSE heap
    /\ UNCHANGED <<libVars, overflow_checks, built, V2, G, iter, yielded, nones, last, nsets, panicked>>

\* the grids the runs with views start from
ViewCalls ==
    {c \in FromSizeCalls : Product(c.size) <= MaxViewExtent + 1}
    \cup {c \in FromDataCalls : Len(c.data) <= MaxViewExtent + 1 \/ Len(c.data) > MaxLen}
    \cup {c \in FromBytesCalls : Len(c.data) <= MaxViewExtent}

InitView == InitWith(ViewCalls)

\* the runs with views take the view of the grid as it was built
ViewOfBuilt(offset, size) ==
    /\ nsets = 0
    /\ View(offset, size)

\* the runs with views read the grid before they take a view of it, and the
\* view from then on (the grid cannot change while the view borrows it)
Current == IF V.present THEN "V" ELSE "G"

NextView ==
    \/ Idle /\ ~V.present /\ \E o \in ViewOffsets, s \in ViewSizes : ViewOfBuilt(o, s)
    \/ DropView
    \/ Idle /\ \E p \in Probes(Target(Current)) : DoGet(Current, p)
    \/ Idle /\ \E t \in {"G", "V"} : \E p \in Probes(Target(t)), val \in SetVals : DoSet(t, p, val)
    \/ Consume

SpecView == InitView /\ [][NextView]_vars

(***************************************************************************)
(* Views of views, and the two coordinate conversions of a view.           *)
(***************************************************************************)
\* GridView::to_global, GridView::to_local
to_global(self, p) == Point_add(self.offset, p)
to_local(self, p) == Point_sub(p, self.offset)

\* V2 = V.view(offset, size)
ViewOfView(offset, size) ==
    /\ ~panicked
    /\ Idle
    /\ V.present
    /\ ~V2.present
    /\ LET r == view(V, heap, offset, size)
       IN  /\ V2' = r.view
           /\ heap' = r.heap
    /\ last' = [NoCall EXCEPT !.op = "view", !.target = "V", !.p = offset]
    /\ UNCHANGED <<libVars, overflow_checks, built, G, V, iter, yielded, nones, nsets, panicked>>

\* t.to_global(p)
DoToGlobal(t, p) ==
    /\ ~panicked
    /\ Idle
    /\ Target(t).present
    /\ last' = [NoCall EXCEPT !.op = "to_global", !.target = t, !.p = p,
                              !.ret_pt = to_global(Target(t), p)]
    /\ UNCHANGED <<libVars, overflow_checks, built, heap, G, V, V2, iter, yielded, nones, nsets,
                   panicked>>

\* t.to_local(q) of the point q the last to_global returned, on the same view
DoToLocal ==
    /\ ~panicked
    /\ last.op = "to_global"
    /\ last' = [last EXCEPT !.op = "to_local", !.ret_pt = to_local(Target(last.target), last.ret_pt)]
    /\ UNCHANGED <<libVars, overflow_checks, built, heap, G, V, V2, iter, yielded, nones, nsets,
                   panicked>>

\* the sizes of the first view: empty, and the largest
NestedSizes == {<<0, 0>>, <<MaxViewExtent, MaxViewExtent>>}

\* the grid the nested views are taken of: the one of distinct cells
NestedCalls == {c \in FromDataCalls : Len(c.data) > MaxLen}

InitNested == InitWith(NestedCalls)

\* the innermost view there is
Innermost == IF V2.present THEN "V2" ELSE Current

NextNested ==
    \/ Idle /\ ~V.present /\ \E o \in ViewOffsets, s \in NestedSizes : ViewOfBuilt(o, s)
    \/ \E o \in ViewOffsets, s \in ViewSizes : ViewOfView(o, s)
    \/ Idle /\ \E p \in Probes(Target(Innermost)) : DoGet(Innermost, p)
    \/ Idle /\ \E p \in Probes(Target(Innermost)) : DoToGlobal(Innermost, p)
    \/ DoToLocal
    \/ Consume

SpecNested == InitNested /\ [][NextNested]_vars

(***************************************************************************)
(* Subscripts.                                                             *)
(***************************************************************************)
\* Index<Point2>: get(index).unwrap(); [panic, ret], ret the element as Some
index_point(self, h, index) ==
    LET g == get(self, h, index)
    IN  IF g.panic \/ g.ret = None THEN [panic |-> TRUE, ret |-> None]
        ELSE [panic |-> FALSE, ret |-> g.ret]

\* a tuple subscript that checks the point against size first
index_tuple_checked(self, h, xy) ==
    LET d == data_offset(self, xy)
    IN  IF ~in_bounds(self, xy) \/ (d.overflow /\ overflow_checks)
           \/ d.index >= Len(data(self, h))
        THEN [panic |-> TRUE, ret |-> None]
        ELSE [panic |-> FALSE, ret |-> Some(data(self, h)[d.index + 1])]

\* Index<(isize, isize)>: &self.grid[data_offset((x, y))]
index_tuple(self, h, xy) ==
    LET d == data_offset(self, xy)
    IN  IF (d.overflow /\ overflow_checks) \/ d.index >= Len(data(self, h))
        THEN [panic |-> TRUE, ret |-> None]
        ELSE [panic |-> FALSE, ret |-> Some(data(self, h)[d.index + 1])]

\* t[p]
DoIndexPoint(t, p) ==
    /\ ~panicked
    /\ Idle
    /\ Target(t).present
    /\ Len(Target(t).size) = 2
    /\ LET r == index_point(Target(t), heap, p)
       IN  /\ last' = [NoCall EXCEPT !.op = "index_point", !.target = t, !.p = p,
                                     !.panic = r.panic, !.ret_opt = r.ret]
           /\ panicked' = r.panic
    /\ UNCHANGED <<libVars, overflow_checks, built, V2, heap, G, V, iter, yielded, nones, nsets>>

\* t[(x, y)]
DoIndexTuple(t, p) ==
    /\ ~panicked
    /\ Idle
    /\ Target(t).present
    /\ Len(Target(t).size) = 2
    /\ LET r == index_tuple(Target(t), heap, p)
       IN  /\ last' = [NoCall EXCEPT !.op = "index_tuple", !.target = t, !.p = p,
                                     !.panic = r.panic, !.ret_opt = r.ret]
           /\ panicked' = r.panic
    /\ UNCHANGED <<libVars, overflow_checks, built, V2, heap, G, V, iter, yielded, nones, nsets>>

NextIndex ==
    \/ Idle /\ ~V.present /\ \E o \in ViewOffsets, s \in ViewSizes : View(o, s)
    \/ Idle /\ \E p \in Probes(Target(Current)) : DoGet(Current, p)
    \/ Idle /\ \E p \in Probes(Target(Current)) : DoIndexPoint(Current, p)
    \/ Idle /\ \E p \in Probes(Target(Current)) : DoIndexTuple(Current, p)
    \/ Consume

SpecIndex == InitView /\ [][NextIndex]_vars

(***************************************************************************)
(* Enumeration.                                                            *)
(***************************************************************************)
\* the number of points of the grid a PointIter was made for
Cells(it) == Product(Point_add(it.size, Point_unit(Len(it.size))))

\* iter = t.points_iter()
PointsIter(t) ==
    /\ ~panicked
    /\ Idle
    /\ Target(t).present
    /\ ~iter.present
    /\ iter' = points_iter(Target(t))
    /\ yielded' = <<>>
    /\ nones' = 0
    /\ UNCHANGED <<libVars, overflow_checks, built, V2, heap, G, V, last, nsets, panicked>>

\* iter.next(), asked at most MaxExtraYield times more than the grid has points
IterNext ==
    /\ ~panicked
    /\ iter.present
    /\ Len(yielded) + nones < Cells(iter) + MaxExtraYield
    /\ LET r == PointIter_next(iter)
       IN  /\ iter' = r.self
           /\ yielded' = IF r.ret = None THEN yielded ELSE Append(yielded, r.ret[1])
           /\ nones' = IF r.ret = None THEN nones + 1 ELSE nones
    /\ UNCHANGED <<libVars, overflow_checks, built, V2, heap, G, V, last, nsets, panicked>>

\* points_iter reads the size of a view only: the views enumerated have
\* offset (0, 0)
NextIter ==
    \/ ~V.present /\ \E s \in ViewSizes : View(Point_default(2), s)
    \/ \E t \in {"G", "V"} : PointsIter(t)
    \/ IterNext

SpecIter == Init /\ [][NextIter]_vars

(***************************************************************************)
(* The runs of the other modules make no grid.                             *)
(***************************************************************************)
NoGrid ==
    /\ heap = <<>>
    /\ G = NoView
    /\ V = NoView
    /\ V2 = NoView
    /\ iter = NoIter
    /\ yielded = <<>>
    /\ nones = 0
    /\ last = NoCall
    /\ built = Call("none", <<>>, <<>>, 0, <<>>)
    /\ nsets = 0

(***************************************************************************)
(* point.rs, direction.rs: unit vectors of the 2N axis directions.         *)
(***************************************************************************)
U8Modulus == 2 ^ U8Bits

\* `x as u8` of a usize x
as_u8(x) == x % U8Modulus

\* -Point
Point_neg(p) == [i \in 1..Len(p) |-> 0 - p[i]]

\* Point::<N>::orientation_delta(o): [panic, point]; the assert panics
orientation_delta(n, o) ==
    IF ~(o < n * 2) THEN [panic |-> TRUE, point |-> <<>>]
    ELSE LET comp_ndx == o % n
             neg == o >= n
         IN  [panic |-> FALSE,
              point |-> [i \in 1..n |-> IF i - 1 = comp_ndx THEN (IF neg THEN -1 ELSE 1) ELSE 0]]

\* Direction::<N>::new(val): [panic, d]; a remainder by zero panics
Direction_new(n, val) ==
    IF as_u8(2 * n) = 0 THEN [panic |-> TRUE, d |-> 0]
    ELSE [panic |-> FALSE, d |-> val % as_u8(2 * n)]

\* delta with the signs exchanged
Direction_delta_flipped(n, d) ==
    [i \in 1..n |-> IF d % n = i - 1 THEN (IF d \div n = 0 THEN -1 ELSE 1) ELSE 0]

\* Direction::<N>::delta, of the direction Direction(d)
Direction_delta(n, d) ==
    [i \in 1..n |-> IF d % n = i - 1 THEN (IF d \div n = 0 THEN 1 ELSE -1) ELSE 0]

\* Direction<N> + rhs (also += rhs): [panic, d]
Direction_add(n, d, rhs) == Direction_new(n, as_u8(d + n + rhs))

\* Direction<N> - rhs (also -= rhs): [panic, d]
Direction_sub(n, d, rhs) == Direction_new(n, as_u8(d + n - rhs))

\* -Direction<N>: [panic, d]; self.0 + N as u8 is an addition of two u8, which
\* panics on overflow in a build with overflow checks and wraps otherwise
Direction_neg(n, d, checks) ==
    IF d + as_u8(n) >= U8Modulus /\ checks THEN [panic |-> TRUE, d |-> 0]
    ELSE Direction_new(n, as_u8(d + as_u8(n)))

\* the dimensions N: the small ones, and the two around half the range of u8
Dims == (0..MaxDim) \cup {U8Modulus \div 2 - 1, U8Modulus \div 2}

\* the small integers added to and subtracted from a direction
Steps == (0 - MaxStep)..MaxStep

\* orientation_delta is handed any o up to one beyond 2N, Direction::new any u8;
\* the operators are applied to Direction::new(o), with a step k
PointCalls ==
    UNION {{[fn |-> "orientation_delta", n |-> n, o |-> o] : o \in 0..(2 * n + 1)} : n \in Dims}
    \cup {[fn |-> "Direction::new", n |-> n, o |-> o] : n \in Dims, o \in 0..(U8Modulus - 1)}
    \cup {[fn |-> f, n |-> n, o |-> o, k |-> k] :
              f \in {"Direction::add", "Direction::sub", "Direction::neg"},
              n \in Dims, o \in 0..(U8Modulus - 1), k \in Steps}

InitPoint ==
    /\ NoGrid
    /\ overflow_checks \in BOOLEAN
    /\ panicked = FALSE
    /\ args \in PointCalls
    /\ result = NoResult
    /\ sv = NoStackVec
    /\ NoFile

\* result = Point::<n>::orientation_delta(o)
DoOrientationDelta ==
    /\ ~panicked
    /\ args.fn = "orientation_delta"
    /\ ~result.done
    /\ LET r == orientation_delta(args.n, args.o)
       IN  /\ result' = [done |-> TRUE, panic |-> r.panic, point |-> r.point]
           /\ panicked' = r.panic
    /\ UNCHANGED <<gridVars, fileVars, overflow_checks, args, sv>>

\* result = Direction::<n>::new(o).delta()
DoDirectionDelta ==
    /\ ~panicked
    /\ args.fn = "Direction::new"
    /\ ~result.done
    /\ LET r == Direction_new(args.n, args.o)
       IN  /\ result' = [done |-> TRUE, panic |-> r.panic,
                         point |-> IF r.panic THEN <<>> ELSE Direction_delta(args.n, r.d)]
           /\ panicked' = r.panic
    /\ UNCHANGED <<gridVars, fileVars, overflow_checks, args, sv>>

\* the outcome of an operator on the direction Direction(v): d is the value
\* of the direction returned, back that of the inverse operator applied to it
DirectionResult(op, made, r) ==
    [done |-> TRUE, panic |-> made.panic \/ r.panic, op |-> op, v |-> made.d, d |-> r.d,
     back |-> None]

\* result = Direction::<n>::new(o) + k
DoDirectionAdd ==
    /\ ~panicked
    /\ args.fn = "Direction::add"
    /\ ~result.done
    /\ LET made == Direction_new(args.n, args.o)
           r == IF made.panic THEN made ELSE Direction_add(args.n, made.d, args.k)
       IN  /\ result' = DirectionResult("add", made, r)
           /\ panicked' = r.panic
    /\ UNCHANGED <<gridVars, fileVars, overflow_checks, args, sv>>

\* result = Direction::<n>::new(o) - k, or the k taken off again from the
\* direction an addition of k returned
DoDirectionSub ==
    /\ ~panicked
    /\ \/ /\ args.fn = "Direction::sub"
          /\ ~result.done
          /\ LET made == Direction_new(args.n, args.o)
                 r == IF made.panic THEN made ELSE Direction_sub(args.n, made.d, args.k)
             IN  /\ result' = DirectionResult("sub", made, r)
                 /\ panicked' = r.panic
       \/ /\ args.fn = "Direction::add"
          /\ result.done
          /\ result.back = None
          /\ LET r == Direction_sub(args.n, result.d, args.k)
             IN  /\ result' = [result EXCEPT !.back = Some(r.d)]
                 /\ panicked' = r.panic
    /\ UNCHANGED <<gridVars, fileVars, overflow_checks, args, sv>>

\* result = -Direction::<n>::new(o), or the negation of a negation
DoDirectionNeg ==
    /\ ~panicked
    /\ args.fn = "Direction::neg"
    /\ \/ /\ ~result.done
          /\ LET made == Direction_new(args.n, args.o)
                 r == IF made.panic THEN made
                      ELSE Direction_neg(args.n, made.d, overflow_checks)
             IN  /\ result' = DirectionResult("neg", made, r)
                 /\ panicked' = r.panic
       \/ /\ result.done
          /\ result.back = None
          /\ LET r == Direction_neg(args.n, result.d, overflow_checks)
             IN  /\ result' = [result EXCEPT !.back = IF r.panic THEN None ELSE Some(r.d)]
                 /\ panicked' = r.panic
    /\ UNCHANGED <<gridVars, fileVars, overflow_checks, args, sv>>

NextPoint ==
    \/ DoOrientationDelta
    \/ DoDirectionDelta
    \/ DoDirectionAdd
    \/ DoDirectionSub
    \/ DoDirectionNeg

SpecPoint == InitPoint /\ [][NextPoint]_vars

(***************************************************************************)
(* stackvec.rs.  A slot (MaybeUninit<T>) is None while uninitialized and   *)
(* Some(v) once written; slot i of the source is data[i + 1] here, and the *)
(* capacity N is Len(data).                                                *)
(***************************************************************************)
\* Result<(), T>
Ok == <<"Ok">>
Err(val) == <<"Err", val>>

\* StackVec::new
StackVec_new(n) == [present |-> TRUE, data |-> [i \in 1..n |-> None], len |-> 0]

\* MaybeUninit::assume_init_read: reading an uninitialized slot is undefined
\* behaviour, which yields any value (junk)
assume_init_read(cell, junk) == IF cell = None THEN junk ELSE cell[1]

\* AsRef<[T]>: the slots data[..len]
as_ref(self) == SubSeq(self.data, 1, self.len)

\* push: [panic, self]; the assert panics
push(self, val) ==
    IF ~(self.len < Len(self.data)) THEN [panic |-> TRUE, self |-> self]
    ELSE [panic |-> FALSE,
          self |-> [self EXCEPT !.data[self.len + 1] = Some(val), !.len = self.len + 1]]

\* try_push: [ret, self]
try_push(self, val) ==
    IF self.len >= Len(self.data) THEN [ret |-> Err(val), self |-> self]
    ELSE [ret |-> Ok,
          self |-> [self EXCEPT !.data[self.len + 1] = Some(val), !.len = self.len + 1]]

\* pop: [ret, self]
pop(self, junk) ==
    IF self.len = 0 THEN [ret |-> None, self |-> self]
    ELSE LET len == self.len - 1
             cell == self.data[len + 1]
         IN  [ret |-> Some(assume_init_read(cell, junk)), self |-> [self EXCEPT !.len = len]]

\* the loop of remove over i, i-1, .., index (moved is its `last`):
\* [data, moved]
RECURSIVE remove_shift(_, _, _, _)
remove_shift(d, moved, i, index) ==
    IF i < index THEN [data |-> d, moved |-> moved]
    ELSE remove_shift([d EXCEPT ![i + 1] = moved], d[i + 1], i - 1, index)

\* remove that fills the hole with the final element (a swap_remove)
remove_swap(self, index, junk) ==
    IF index >= self.len THEN [ret |-> None, self |-> self]
    ELSE LET len == self.len - 1
             moved == self.data[len + 1]
             d == [self.data EXCEPT ![len + 1] = None]
         IN  IF index = len
             THEN [ret |-> Some(assume_init_read(moved, junk)),
                   self |-> [self EXCEPT !.data = d, !.len = len]]
             ELSE [ret |-> Some(assume_init_read(d[index + 1], junk)),
                   self |-> [self EXCEPT !.data = [d EXCEPT ![index + 1] = moved], !.len = len]]

\* remove that takes the final element whatever the index (a pop)
remove_final(self, index, junk) ==
    IF index >= self.len THEN [ret |-> None, self |-> self] ELSE pop(self, junk)

\* remove: [ret, self]
remove(self, index, junk) ==
    IF index >= self.len THEN [ret |-> None, self |-> self]
    ELSE LET len == self.len - 1
             moved == self.data[len + 1]
             r == remove_shift([self.data EXCEPT ![len + 1] = None], moved, len - 1, index)
         IN  [ret |-> Some(assume_init_read(r.moved, junk)),
              self |-> [self EXCEPT !.data = r.data, !.len = len]]

\* the values pushed
Vals == 1..MaxVal

InitStackVec ==
    /\ NoGrid
    /\ overflow_checks \in BOOLEAN
    /\ panicked = FALSE
    /\ args = NoArgs
    /\ result = NoResult
    /\ \E n \in 0..MaxCap : sv = StackVec_new(n)
    /\ NoFile

Push(val) ==
    /\ ~panicked
    /\ LET r == push(sv, val)
       IN  /\ sv' = r.self
           /\ result' = [done |-> TRUE, op |-> "push", val |-> val, index |-> 0,
                         panic |-> r.panic, ret |-> None]
           /\ panicked' = r.panic
    /\ UNCHANGED <<gridVars, fileVars, overflow_checks, args>>

TryPush(val) ==
    /\ ~panicked
    /\ LET r == try_push(sv, val)
       IN  /\ sv' = r.self
           /\ result' = [done |-> TRUE, op |-> "try_push", val |-> val, index |-> 0,
                         panic |-> FALSE, ret |-> r.ret]
    /\ UNCHANGED <<gridVars, fileVars, overflow_checks, args, panicked>>

Pop ==
    /\ ~panicked
    /\ \E junk \in Vals :
          LET r == pop(sv, junk)
          IN  /\ sv' = r.self
              /\ result' = [done |-> TRUE, op |-> "pop", val |-> 0, index |-> 0,
                            panic |-> FALSE, ret |-> r.ret]
    /\ UNCHANGED <<gridVars, fileVars, overflow_checks, args, panicked>>

Remove(index) ==
    /\ ~panicked
    /\ \E junk \in Vals :
          LET r == remove(sv, index, junk)
          IN  /\ sv' = r.self
              /\ result' = [done |-> TRUE, op |-> "remove", val |-> 0, index |-> index,
                            panic |-> FALSE, ret |-> r.ret]
    /\ UNCHANGED <<gridVars, fileVars, overflow_checks, args, panicked>>

NextStackVec ==
    \/ \E val \in Vals : Push(val)
    \/ \E val \in Vals : TryPush(val)
    \/ Pop
    \/ \E index \in 0..MaxCap : Remove(index)

SpecStackVec == InitStackVec /\ [][NextStackVec]_vars

(***************************************************************************)
(* bcd.rs.  A Bcd is the number Bcd.0.                                     *)
(***************************************************************************)
\* u64::BITS
U64Bits == 4 * BcdNibbles

\* the number of bits of x without its leading zeros
RECURSIVE BitLength(_)
BitLength(x) == IF x = 0 THEN 0 ELSE 1 + BitLength(x \div 2)

\* u64::leading_zeros
leading_zeros(x) == U64Bits - BitLength(x)

\* x >> k of a u64 x: [panic, val]; a shift by U64Bits or more overflows,
\* where a build with overflow checks panics and one without shifts by
\* k mod U64Bits
shr(x, k) ==
    IF k >= U64Bits \/ k < 0
    THEN [panic |-> overflow_checks, val |-> x \div (2 ^ (k % U64Bits))]
    ELSE [panic |-> FALSE, val |-> x \div (2 ^ k)]

\* Bcd::len
Bcd_len(self) == U64Bits \div 4 - leading_zeros(self) \div 4

\* Shr<u32> for Bcd: self.0 >> (4 * rhs)
Bcd_shr(self, rhs) == shr(self, 4 * rhs).val

\* the fold of From<Bcd> for u64 over i, i-1, .., 0
RECURSIVE u64_from_fold(_, _, _)
u64_from_fold(value, i, acc) ==
    IF i < 0 THEN acc
    ELSE u64_from_fold(value, i - 1, acc * 10 + (Bcd_shr(value, i) % 16))

\* From<Bcd> for u64
u64_from(value) == u64_from_fold(value, Bcd_len(value) - 1, 0)

\* the while loop of From<u64> for Bcd: [out, len]
RECURSIVE Bcd_from_loop(_, _, _)
Bcd_from_loop(value, len, out) ==
    IF ~(value > 0) THEN [out |-> out, len |-> len]
    ELSE Bcd_from_loop(value \div 10, len + 1,
                       (out \div 16) + ((value % 10) * 2 ^ (U64Bits - 4)))

\* From<u64> for Bcd: [panic, bcd]; the final shift is by U64Bits - len * 4
Bcd_from(value) ==
    LET l == Bcd_from_loop(value, 0, 0)
        r == shr(l.out, U64Bits - l.len * 4)
    IN  [panic |-> r.panic, bcd |-> r.val]

\* the values converted: every one of at most BcdNibbles decimal digits
BcdCalls == {[fn |-> "Bcd::from", v |-> v] : v \in 0..(10 ^ BcdNibbles - 1)}

InitBcd ==
    /\ NoGrid
    /\ overflow_checks \in BOOLEAN
    /\ panicked = FALSE
    /\ args \in BcdCalls
    /\ result = NoResult
    /\ sv = NoStackVec
    /\ NoFile

\* b = Bcd::from(v), and b.len()
DoBcdFrom ==
    /\ ~panicked
    /\ args.fn = "Bcd::from"
    /\ ~result.done
    /\ LET r == Bcd_from(args.v)
       IN  /\ result' = [done |-> TRUE, panic |-> r.panic, bcd |-> r.bcd,
                         len |-> Bcd_len(r.bcd), back |-> None]
           /\ panicked' = r.panic
    /\ UNCHANGED <<gridVars, fileVars, overflow_checks, args, sv>>

\* u64::from(b)
DoU64From ==
    /\ ~panicked
    /\ args.fn \in {"Bcd::from", "Bcd::add", "Bcd::sub"}
    /\ result.done
    /\ result.back = None
    /\ result' = [result EXCEPT !.back = Some(u64_from(result.bcd))]
    /\ UNCHANGED <<gridVars, fileVars, overflow_checks, args, sv, panicked>>

NextBcd ==
    \/ DoBcdFrom
    \/ DoU64From

SpecBcd == InitBcd /\ [][NextBcd]_vars

\* x << k of a u64 x: [panic, val]; as shr, and the bits shifted out are lost
shl(x, k) ==
    IF k >= U64Bits \/ k < 0
    THEN [panic |-> overflow_checks, val |-> (x * 2 ^ (k % U64Bits)) % (2 ^ U64Bits)]
    ELSE [panic |-> FALSE, val |-> (x * 2 ^ k) % (2 ^ U64Bits)]

\* x & y, bit by bit
RECURSIVE BitAnd(_, _)
BitAnd(x, y) ==
    IF x = 0 \/ y = 0 THEN 0
    ELSE (x % 2) * (y % 2) + 2 * BitAnd(x \div 2, y \div 2)

\* x & !y and x | y of u64
BitAndNot(x, y) == x - BitAnd(x, y)
BitOr(x, y) == x + y - BitAnd(x, y)

\* u32 is half as wide as u64
U32Modulus == 2 ^ (U64Bits \div 2)

\* the while loop of Add<u32> for Bcd: [panic, bcd]
RECURSIVE Bcd_add_loop(_, _, _, _)
Bcd_add_loop(rhs, carry, out, offset) ==
    IF ~(rhs > 0 \/ carry > 0) THEN [panic |-> FALSE, bcd |-> out]
    ELSE LET digit == shr(out, offset)
             res == BitAnd(digit.val, 15) + (rhs % 10) + carry
             mask == shl(15, offset)
             put == shl(res % 10, offset)
         IN  IF digit.panic \/ mask.panic \/ put.panic THEN [panic |-> TRUE, bcd |-> out]
             ELSE Bcd_add_loop(rhs \div 10, res \div 10,
                               BitOr(BitAndNot(out, mask.val), put.val), offset + 4)

\* Add<u32> for Bcd: [panic, bcd]
Bcd_add(self, rhs) == Bcd_add_loop(rhs, 0, self, 0)

\* the while loop of Sub<u32> for Bcd: [panic, bcd]; res is
\* digit + rhs % 10 - carry, carry is (res < 0), the digit written is
\* res.rem_euclid(10)
RECURSIVE Bcd_sub_loop(_, _, _, _)
Bcd_sub_loop(rhs, carry, out, offset) ==
    IF ~(rhs > 0 \/ carry > 0) THEN [panic |-> FALSE, bcd |-> out]
    ELSE LET digit == shr(out, offset)
             res == BitAnd(digit.val, 15) + (rhs % 10) - carry
             mask == shl(15, offset)
             put == shl(res % 10, offset)
         IN  IF digit.panic \/ mask.panic \/ put.panic THEN [panic |-> TRUE, bcd |-> out]
             ELSE Bcd_sub_loop(rhs \div 10, IF res < 0 THEN 1 ELSE 0,
                               BitOr(BitAndNot(out, mask.val), put.val), offset + 4)

\* Sub<u32> for Bcd: [panic, bcd]
Bcd_sub(self, rhs) == Bcd_sub_loop(rhs, 0, self, 0)

\* the left operands: the small values, and the powers of ten and the values
\* one below them (all nines) up to BcdNibbles digits
BcdOperands ==
    (0..MaxOperand)
    \cup {10 ^ k - 1 : k \in 1..BcdNibbles}
    \cup {10 ^ k : k \in 1..(BcdNibbles - 1)}

\* Bcd::from(a) + b with a + b of at most BcdNibbles digits, and
\* Bcd::from(a) - b with b <= a, for every u32 b
BcdArithCalls ==
    {c \in [fn : {"Bcd::add"}, a : BcdOperands, b : 0..(U32Modulus - 1)] :
        c.a + c.b < 10 ^ BcdNibbles}
    \cup {c \in [fn : {"Bcd::sub"}, a : BcdOperands, b : 0..(U32Modulus - 1)] : c.b <= c.a}

InitBcdArith ==
    /\ NoGrid
    /\ overflow_checks \in BOOLEAN
    /\ panicked = FALSE
    /\ args \in BcdArithCalls
    /\ result = NoResult
    /\ sv = NoStackVec
    /\ NoFile

\* the outcome of an operator on Bcd::from(a)
BcdArithResult(made, r) ==
    [done |-> TRUE, panic |-> made.panic \/ r.panic, bcd |-> r.bcd, len |-> Bcd_len(r.bcd),
     back |-> None]

\* Bcd::from(a) + b
DoBcdAdd ==
    /\ ~panicked
    /\ args.fn = "Bcd::add"
    /\ ~result.done
    /\ LET made == Bcd_from(args.a)
           r == IF made.panic THEN made ELSE Bcd_add(made.bcd, args.b)
       IN  /\ result' = BcdArithResult(made, r)
           /\ panicked' = r.panic
    /\ UNCHANGED <<gridVars, fileVars, overflow_checks, args, sv>>

\* Bcd::from(a) - b
DoBcdSub ==
    /\ ~panicked
    /\ args.fn = "Bcd::sub"
    /\ ~result.done
    /\ LET made == Bcd_from(args.a)
           r == IF made.panic THEN made ELSE Bcd_sub(made.bcd, args.b)
       IN  /\ result' = BcdArithResult(made, r)
           /\ panicked' = r.panic
    /\ UNCHANGED <<gridVars, fileVars, overflow_checks, args, sv>>

NextBcdArith ==
    \/ DoBcdAdd
    \/ DoBcdSub
    \/ DoU64From

SpecBcdArith == InitBcdArith /\ [][NextBcdArith]_vars

(***************************************************************************)
(* Part::check, of aoc-base/src/lib.rs and of src/lib.rs.  A string is the *)
(* sequence of its bytes.                                                  *)
(***************************************************************************)
\* Answer::Num(n), Answer::Str(s)
Num(n) == [tag |-> "Num", n |-> n, s |-> <<>>]
Str(str) == [tag |-> "Str", n |-> 0, s |-> str]

\* the characters char::is_whitespace accepts, on ASCII
is_whitespace == (9..13) \cup {Space}

\* the string without its leading characters that are in drop
RECURSIVE trim_start_while(_, _)
trim_start_while(str, drop) ==
    IF Len(str) > 0 /\ Head(str) \in drop THEN trim_start_while(Tail(str), drop) ELSE str

\* the string without its trailing characters that are in drop
RECURSIVE trim_end_while(_, _)
trim_end_while(str, drop) ==
    IF Len(str) > 0 /\ str[Len(str)] \in drop
    THEN trim_end_while(SubSeq(str, 1, Len(str) - 1), drop)
    ELSE str

\* str::trim_matches(c)
trim_matches(str, c) == trim_end_while(trim_start_while(str, {c}), {c})

\* str::trim
trim(str) == trim_end_while(trim_start_while(str, is_whitespace), is_whitespace)

\* PartialEq for Answer of aoc-base
Answer_eq(l, r) ==
    CASE l.tag = "Num" /\ r.tag = "Num" -> l.n = r.n
      [] l.tag = "Str" /\ r.tag = "Str" -> trim(l.s) = trim(r.s)
      [] OTHER -> FALSE

\* the derived PartialEq for Answer of src/lib.rs
Answer_eq_derived(l, r) ==
    CASE l.tag = "Num" /\ r.tag = "Num" -> l.n = r.n
      [] l.tag = "Str" /\ r.tag = "Str" -> l.s = r.s
      [] OTHER -> FALSE

\* the solvers (Part::run) of the runs: one that fails, one that counts the
\* bytes of its input, one that returns its input: [ok, answer]
Solvers == {"fail", "count", "echo"}

Part_run(solver, input) ==
    CASE solver = "fail" -> [ok |-> FALSE, answer |-> Num(0)]
      [] solver = "count" -> [ok |-> TRUE, answer |-> Num(Len(input))]
      [] OTHER -> [ok |-> TRUE, answer |-> Str(input)]

\* check of aoc-base handing the solver the example text as it is
Part_check_untrimmed(expected, solver, input) ==
    IF expected = None THEN TRUE
    ELSE LET r == Part_run(solver, input)
         IN  IF ~r.ok THEN FALSE
             ELSE IF ~Answer_eq(r.answer, expected[1]) THEN FALSE
             ELSE TRUE

\* Part::check(input) of aoc-base: TRUE for Ok(()), FALSE for an error
Part_check(expected, solver, input) ==
    IF expected = None THEN TRUE
    ELSE LET r == Part_run(solver, trim_matches(input, NewLine))
         IN  IF ~r.ok THEN FALSE
             ELSE IF ~Answer_eq(r.answer, expected[1]) THEN FALSE
             ELSE TRUE

\* Part::check() of src/lib.rs, example being Day::EXAMPLE
Part_check_of_day(example, expected, solver) ==
    IF example # None /\ expected # None
    THEN LET r == Part_run(solver, trim_matches(example[1], NewLine))
         IN  IF ~r.ok THEN FALSE
             ELSE IF ~Answer_eq_derived(r.answer, expected[1]) THEN FALSE
             ELSE TRUE
    ELSE TRUE

\* the strings of at most n bytes over '\n', ' ' and 'A'
Texts(n) == UNION {[1..k -> {NewLine, Space, ContentByte(0)}] : k \in 0..n}

\* Part::EXAMPLE_RESULT
ExpectedResults ==
    {None} \cup {Some(Num(k)) : k \in 0..MaxTextLen}
           \cup {Some(Str(t)) : t \in Texts(MaxExpectedLen)}

CheckCalls ==
    {[fn |-> "Part::check", crate |-> "aoc-base", example |-> Some(t), expected |-> e, solver |-> f] :
        t \in Texts(MaxTextLen), e \in ExpectedResults, f \in Solvers}
    \cup {[fn |-> "Part::check", crate |-> "aoc-framework", example |-> x, expected |-> e, solver |-> f] :
        x \in {None} \cup {Some(t) : t \in Texts(MaxTextLen)}, e \in ExpectedResults, f \in Solvers}

InitCheck ==
    /\ NoGrid
    /\ overflow_checks = FALSE
    /\ panicked = FALSE
    /\ args \in CheckCalls
    /\ result = NoResult
    /\ sv = NoStackVec
    /\ NoFile

\* P::check(example) of aoc-base
DoCheck ==
    /\ args.fn = "Part::check"
    /\ args.crate = "aoc-base"
    /\ ~result.done
    /\ result' = [done |-> TRUE, ok |-> Part_check(args.expected, args.solver, args.example[1])]
    /\ UNCHANGED <<gridVars, fileVars, overflow_checks, args, sv, panicked>>

\* P::check() of src/lib.rs
DoCheckOfDay ==
    /\ args.fn = "Part::check"
    /\ args.crate = "aoc-framework"
    /\ ~result.done
    /\ result' = [done |-> TRUE, ok |-> Part_check_of_day(args.example, args.expected, args.solver)]
    /\ UNCHANGED <<gridVars, fileVars, overflow_checks, args, sv, panicked>>

NextCheck ==
    \/ DoCheck
    \/ DoCheckOfDay

SpecCheck == InitCheck /\ [][NextCheck]_vars

(***************************************************************************)
(* checker.rs: the filter of days and parts.                               *)
(***************************************************************************)
\* str::split(c): the pieces of str between the occurrences of c
RECURSIVE split(_, _)
split(str, c) ==
    LET k == PositionOr(str, c, 0)
    IN  IF k >= Len(str) THEN <<str>>
        ELSE <<SubSeq(str, 1, k)>> \o split(SubSeq(str, k + 2, Len(str)), c)

\* the value of a string of decimal digits
RECURSIVE DecimalValue(_, _)
DecimalValue(str, acc) ==
    IF str = <<>> THEN acc ELSE DecimalValue(Tail(str), acc * 10 + (Head(str) - Digit0))

IsDigits(str) == str # <<>> /\ \A k \in 1..Len(str) : str[k] \in Digit0..(Digit0 + 9)

\* str::parse::<i8>: [ok, val]; an optional sign, then digits, within i8
parse_i8(str) ==
    LET signed == str # <<>> /\ Head(str) \in {Plus, Minus}
        digits == IF signed THEN Tail(str) ELSE str
        val == IF str # <<>> /\ Head(str) = Minus THEN 0 - DecimalValue(digits, 0)
               ELSE DecimalValue(digits, 0)
    IN  IF IsDigits(digits) /\ val >= 0 - 2 ^ (U8Bits - 1) /\ val < 2 ^ (U8Bits - 1)
        THEN [ok |-> TRUE, val |-> val]
        ELSE [ok |-> FALSE, val |-> 0]

\* the loop of Checker::new over the entries flts of the filter: [err, panic, filters];
\* filters[day as usize - 1] panics for a day outside 1..NumDays
RECURSIVE Checker_new_loop(_, _)
Checker_new_loop(flts, filters) ==
    IF flts = <<>> THEN [err |-> FALSE, panic |-> FALSE, filters |-> filters]
    ELSE IF Head(flts) = <<>> THEN Checker_new_loop(Tail(flts), filters)
    ELSE LET it == split(Head(flts), Dot)
             day == parse_i8(it[1])
             part == IF Len(it) >= 2 THEN parse_i8(it[2]) ELSE [ok |-> TRUE, val |-> 0]
         IN  IF ~day.ok \/ ~part.ok THEN [err |-> TRUE, panic |-> FALSE, filters |-> filters]
             ELSE IF day.val \notin 1..NumDays
             THEN [err |-> FALSE, panic |-> TRUE, filters |-> filters]
             ELSE Checker_new_loop(Tail(flts), [filters EXCEPT ![day.val] = part.val])

\* Checker::new(_, filter), its filters: [err, panic, filters]
Checker_new(filter) ==
    LET default_filter == IF trim(filter) = <<>> THEN 0 ELSE -1
    IN  Checker_new_loop(split(filter, Comma), [d \in 1..NumDays |-> default_filter])

\* run_and_display of part p of day d: TRUE when it goes on to run the part,
\* FALSE when it returns at once
run_and_display(filters, d, p) ==
    LET flt == filters[d]
    IN  ~(flt # 0 /\ flt # p)

\* the characters of the filters
FilterChars == {Comma, Dot, Space, Digit0 + 1, Digit0 + 2}

FilterCalls ==
    {[fn |-> "Checker::new", filter |-> f] :
        f \in UNION {[1..n -> FilterChars] : n \in 0..MaxFilterLen}}

InitFilter ==
    /\ NoGrid
    /\ overflow_checks = FALSE
    /\ panicked = FALSE
    /\ args \in FilterCalls
    /\ result = NoResult
    /\ sv = NoStackVec
    /\ NoFile

\* c = Checker::new(_, filter)
DoCheckerNew ==
    /\ ~panicked
    /\ args.fn = "Checker::new"
    /\ ~result.done
    /\ LET r == Checker_new(args.filter)
       IN  /\ result' = [done |-> TRUE, err |-> r.err, panic |-> r.panic, filters |-> r.filters,
                         called |-> FALSE, d |-> 0, p |-> 0, ran |-> FALSE]
           /\ panicked' = r.panic
    /\ UNCHANGED <<gridVars, fileVars, overflow_checks, args, sv>>

\* c.for_part of part p of day d, and its run_and_display
RunAndDisplay(d, p) ==
    /\ ~panicked
    /\ args.fn = "Checker::new"
    /\ result.done
    /\ ~result.err
    /\ result' = [result EXCEPT !.called = TRUE, !.d = d, !.p = p,
                                !.ran = run_and_display(result.filters, d, p)]
    /\ UNCHANGED <<gridVars, fileVars, overflow_checks, args, sv, panicked>>

NextFilter ==
    \/ DoCheckerNew
    \/ \E d \in 1..NumDays, p \in 1..2 : RunAndDisplay(d, p)

SpecFilter == InitFilter /\ [][NextFilter]_vars

(***************************************************************************)
(* checker.rs: check_answer, the answer log of the day and the service.    *)
(***************************************************************************)
\* OutputType
Correct == <<"Correct">>
TooHigh == <<"TooHigh">>
TooLow == <<"TooLow">>
Invalid == <<"Invalid">>
Unknown == <<"Unknown">>
Incorrect(correct) == <<"Incorrect", correct>>

\* u64::to_string, u8::to_string
RECURSIVE DecimalString(_)
DecimalString(n) ==
    IF n < 10 THEN <<Digit0 + n>> ELSE Append(DecimalString(n \div 10), Digit0 + (n % 10))

\* Display for Answer
to_string(res) == IF res.tag = "Num" THEN DecimalString(res.n) ELSE res.s

\* BufRead::lines of the bytes of a file: the pieces that end at a '\n', and
\* what follows the last one if anything does, each without a final '\r'
RECURSIVE lines(_)
lines(bytes) ==
    LET k == PositionOr(bytes, NewLine, 0)
        ln == SubSeq(bytes, 1, k)
        stripped == IF ln # <<>> /\ ln[Len(ln)] = CarriageReturn
                    THEN SubSeq(ln, 1, Len(ln) - 1) ELSE ln
    IN  IF bytes = <<>> THEN <<>>
        ELSE <<stripped>> \o lines(SubSeq(bytes, k + 2, Len(bytes)))

\* str::strip_prefix: None, or Some(the rest)
strip_prefix(str, prefix) ==
    IF Len(str) >= Len(prefix) /\ SubSeq(str, 1, Len(prefix)) = prefix
    THEN Some(SubSeq(str, Len(prefix) + 1, Len(str)))
    ELSE None

\* the fold of get_saved_answers over the lines lns: [correct, incorrect]
RECURSIVE get_saved_answers_fold(_, _, _)
get_saved_answers_fold(lns, p, acc) ==
    IF lns = <<>> THEN acc
    ELSE LET rest == strip_prefix(Head(lns), DecimalString(p))
             ln == IF rest = None THEN <<>> ELSE trim_start_while(rest[1], is_whitespace)
             c == IF ln = <<>> THEN 0 ELSE ln[1]
             answer == IF ln = <<>> THEN <<>> ELSE trim(Tail(ln))
             next ==
                CASE c = Equals -> [acc EXCEPT !.correct = Some(answer)]
                  [] c = Greater -> [acc EXCEPT !.incorrect = Append(@, <<TooHigh, answer>>)]
                  [] c = Less -> [acc EXCEPT !.incorrect = Append(@, <<TooLow, answer>>)]
                  [] c = Bang -> [acc EXCEPT !.incorrect = Append(@, <<Invalid, answer>>)]
                  [] OTHER -> acc
         IN  get_saved_answers_fold(Tail(lns), p, next)

\* get_saved_answers of part p: [found, correct, incorrect]; found is FALSE
\* for the NotFound error of File::open
get_saved_answers(file, p) ==
    IF file = None THEN [found |-> FALSE, correct |-> None, incorrect |-> <<>>]
    ELSE LET r == get_saved_answers_fold(lines(file[1]), p, [correct |-> None, incorrect |-> <<>>])
         IN  [found |-> TRUE, correct |-> r.correct, incorrect |-> r.incorrect]

\* the character save_answer_for_part writes for a verdict, or 0 for none
VerdictChar(ty) ==
    CASE ty = Correct -> Equals
      [] ty = TooLow -> Less
      [] ty = TooHigh -> Greater
      [] ty = Invalid -> Bang
      [] OTHER -> 0

\* save_answer_for_part: the file afterwards
save_answer_for_part(file, answer, ty, part) ==
    IF VerdictChar(ty) = 0 THEN file
    ELSE Some((IF file = None THEN <<>> ELSE file[1])
              \o DecimalString(part) \o <<VerdictChar(ty)>> \o answer \o <<NewLine>>)

\* the reading of the response to a submission: body is what the service
\* answered, [success, not_right, too_high, too_low]
Verdict(body) ==
    IF ~body.not_right THEN Correct
    ELSE IF body.too_high THEN TooHigh
    ELSE IF body.too_low THEN TooLow
    ELSE Invalid

\* submit_answer: [err, ret, posted]; reply is what the user types at the prompt
submit_answer(client, always_check, reply, body) ==
    IF ~client THEN [err |-> FALSE, ret |-> Unknown, posted |-> FALSE]
    ELSE IF ~always_check /\ reply # "yes" THEN [err |-> FALSE, ret |-> Unknown, posted |-> FALSE]
    ELSE IF ~body.success THEN [err |-> TRUE, ret |-> Unknown, posted |-> TRUE]
    ELSE [err |-> FALSE, ret |-> Verdict(body), posted |-> TRUE]

\* the loop of fetch_submitted_answers over the answers found in the page:
\* [answers, file]
RECURSIVE fetch_loop(_, _, _)
fetch_loop(found, answers, file) ==
    IF found = <<>> THEN [answers |-> answers, file |-> file]
    ELSE LET answer == trim(Head(found))
         IN  fetch_loop(Tail(found), Append(answers, answer),
                        save_answer_for_part(file, answer, Correct, Min(Len(answers) + 1, 2)))

\* fetch_submitted_answers that leaves no file when the page holds no answer
fetch_submitted_answers_no_create(client, file, page) ==
    IF ~client THEN [err |-> FALSE, answers |-> <<>>, file |-> file, got |-> FALSE]
    ELSE IF ~page.success THEN [err |-> TRUE, answers |-> <<>>, file |-> file, got |-> FALSE]
    ELSE LET r == fetch_loop(page.found, <<>>, file)
         IN  [err |-> FALSE, answers |-> r.answers, file |-> r.file, got |-> TRUE]

\* fetch_submitted_answers: [err, answers, file, got]; page is what the
\* service answered, [success, found]; got tells that the page was fetched
fetch_submitted_answers(client, file, page) ==
    IF ~client THEN [err |-> FALSE, answers |-> <<>>, file |-> file, got |-> FALSE]
    ELSE IF ~page.success THEN [err |-> TRUE, answers |-> <<>>, file |-> file, got |-> FALSE]
    ELSE LET r == fetch_loop(page.found, <<>>, file)
         IN  [err |-> FALSE, answers |-> r.answers,
              file |-> IF r.answers = <<>> THEN Some(<<>>) ELSE r.file, got |-> TRUE]

\* the (ty, answer) of the first pair of incorrect whose answer is res_str, or None
RECURSIVE find(_, _)
find(incorrect, res_str) ==
    IF incorrect = <<>> THEN None
    ELSE IF Head(incorrect)[2] = res_str THEN Some(Head(incorrect))
    ELSE find(Tail(incorrect), res_str)

\* the first statement of check_answer: the saved answers of part p, or, with
\* no log file, the fetched ones: [err, correct, incorrect, file, fetched, got]
known_answers(saved, fetch, file, p) ==
    IF saved.found
    THEN [err |-> FALSE, correct |-> saved.correct, incorrect |-> saved.incorrect,
          file |-> file, fetched |-> FALSE, got |-> FALSE]
    ELSE [err |-> fetch.err,
          correct |-> IF p <= Len(fetch.answers) THEN Some(fetch.answers[p]) ELSE None,
          incorrect |-> <<>>, file |-> fetch.file, fetched |-> TRUE, got |-> fetch.got]

\* what a call of check_answer leaves: [err, ret, file, posted, fetched, got, sent]
Outcome(known, err, ret, file, posted, sent) ==
    [err |-> err, ret |-> ret, file |-> file, posted |-> posted, fetched |-> known.fetched,
     got |-> known.got, sent |-> sent]

\* the last statements of check_answer: the answer is submitted and saved
check_answer_submit(known, p, res_str, sub) ==
    IF sub.err THEN Outcome(known, TRUE, Unknown, known.file, TRUE, res_str)
    ELSE Outcome(known, FALSE, sub.ret, save_answer_for_part(known.file, res_str, sub.ret, p),
                 sub.posted, res_str)

\* check_answer after its first statement
check_answer_known(known, p, res, res_str, prev, sub) ==
    IF known.err THEN Outcome(known, TRUE, Unknown, known.file, FALSE, <<>>)
    ELSE IF Answer_eq(res, Num(0)) \/ Answer_eq(res, Str(<<>>))
    THEN Outcome(known, FALSE, Invalid, known.file, FALSE, <<>>)
    ELSE IF known.correct # None /\ res_str = known.correct[1]
    THEN Outcome(known, FALSE, Correct, known.file, FALSE, <<>>)
    ELSE IF prev # None THEN Outcome(known, FALSE, prev[1][1], known.file, FALSE, <<>>)
    ELSE IF known.correct # None
    THEN Outcome(known, FALSE, Incorrect(known.correct[1]), known.file, FALSE, <<>>)
    ELSE check_answer_submit(known, p, res_str, sub)

\* check_answer after its first statement, known being what that gave
check_answer_from(known, client, p, res, always_check, reply, body) ==
    check_answer_known(known, p, res, to_string(res), find(known.incorrect, to_string(res)),
                       submit_answer(client, always_check, reply, body))

\* check_answer of part p: [err, ret, file, posted, fetched, got, sent]
check_answer(client, file, p, res, page, always_check, reply, body) ==
    check_answer_from(known_answers(get_saved_answers(file, p),
                                    fetch_submitted_answers(client, file, page), file, p),
                      client, p, res, always_check, reply, body)

\* the correct answers of the two parts of the day, as the service holds them
Truth == <<DecimalString(2), <<ContentByte(0)>>>>

\* what the service answers to a submission for part p: the answer is right,
\* or a number above or below the right one, or just not right; an answer that
\* is right but for whitespace around it may be taken either way; and the
\* request may fail
Bodies(p, answer) ==
    LET body(n, h, l) == [success |-> TRUE, not_right |-> n, too_high |-> h, too_low |-> l]
    IN  {[success |-> FALSE, not_right |-> FALSE, too_high |-> FALSE, too_low |-> FALSE]} \cup
        (IF answer = Truth[p] THEN {body(FALSE, FALSE, FALSE)}
         ELSE IF trim(answer) = Truth[p] THEN {body(FALSE, FALSE, FALSE), body(TRUE, FALSE, FALSE)}
         ELSE IF IsDigits(answer) /\ IsDigits(Truth[p])
         THEN {body(TRUE, DecimalValue(answer, 0) > DecimalValue(Truth[p], 0),
                    DecimalValue(answer, 0) < DecimalValue(Truth[p], 0))}
         ELSE {body(TRUE, FALSE, FALSE)})

\* what the service answers to the request for the page of the day: the
\* answers of the parts solved so far, each inside its <code> element, with or
\* without whitespace around it; or the request fails
Pages(solved, padded) ==
    {[success |-> FALSE, found |-> <<>>],
     [success |-> TRUE,
      found |-> [i \in 1..solved |->
                    IF padded THEN <<Space>> \o Truth[i] \o <<NewLine>> ELSE Truth[i]]]}

\* no response: without a client no request is made, and the page is not
\* asked for while the log exists
NoBody == [success |-> FALSE, not_right |-> FALSE, too_high |-> FALSE, too_low |-> FALSE]
NoPage == [success |-> FALSE, found |-> <<>>]

\* AOC_ALWAYS_CHECK and what the user types at the prompt, which is shown
\* only with a client and without AOC_ALWAYS_CHECK
NoPrompt == [always_check |-> FALSE, reply |-> "no"]
Prompts ==
    {[always_check |-> TRUE, reply |-> "no"], [always_check |-> FALSE, reply |-> "yes"], NoPrompt}

\* the strings a solver returns: none, a blank, the right answer of part 2 as
\* it is, with a space after it, with a space before it, and on two lines
AnswerTexts ==
    {<<>>, <<Space>>, Truth[2], Truth[2] \o <<Space>>, <<Space>> \o Truth[2],
     Truth[2] \o <<NewLine>> \o Truth[2]}

\* the results a solver hands to check_answer: the numbers up to MaxNum, and
\* the strings
CheckResults == {Num(n) : n \in 0..MaxNum} \cup {Str(t) : t \in AnswerTexts}

\* a day of the calendar, with or without a session token, with the parts
\* solved before
CheckerCalls ==
    [fn : {"check_answer"}, client : BOOLEAN, solved : 0..2, padded : BOOLEAN]

InitChecker ==
    /\ NoGrid
    /\ overflow_checks = FALSE
    /\ panicked = FALSE
    /\ args \in CheckerCalls
    /\ result = NoResult
    /\ sv = NoStackVec
    /\ NoFile

\* check_answer(res) of part p comes to submit_answer with a client, so that
\* the prompt and the response of the service matter
Submits(p, res, page) ==
    /\ args.client
    /\ check_answer(TRUE, output_file, p, res, page, TRUE, "no", NoBody).posted

\* c.for_part of part p, and its check_answer(res)
CheckAnswer(p, res) ==
    /\ args.fn = "check_answer"
    /\ traffic.checks < MaxChecks
    /\ \E page \in IF args.client /\ output_file = None
                   THEN Pages(args.solved, args.padded) ELSE {NoPage} :
       \E ask \in IF Submits(p, res, page) THEN Prompts ELSE {NoPrompt},
          body \in IF Submits(p, res, page) THEN Bodies(p, to_string(res)) ELSE {NoBody} :
          LET r == check_answer(args.client, output_file, p, res, page, ask.always_check,
                                ask.reply, body)
          IN  /\ output_file' = r.file
              /\ result' = [done |-> TRUE, p |-> p, res |-> res, err |-> r.err, ret |-> r.ret,
                            posted |-> r.posted, fetched |-> r.fetched, got |-> r.got]
              /\ traffic' = [checks |-> traffic.checks + 1,
                             posts |-> IF r.posted /\ ~r.err
                                       THEN traffic.posts \cup
                                            {[p |-> p, answer |-> r.sent, ty |-> r.ret]}
                                       ELSE traffic.posts,
                             gets |-> IF r.got THEN traffic.gets + 1 ELSE traffic.gets]
    /\ UNCHANGED <<gridVars, overflow_checks, args, sv, panicked>>

NextChecker ==
    \E p \in 1..2, res \in CheckResults : CheckAnswer(p, res)

SpecChecker == InitChecker /\ [][NextChecker]_vars

(***************************************************************************)
(* Properties.                                                             *)
(***************************************************************************)
\* some component of p is outside [0, size[i])
OutOfBounds(self, p) == \E i \in 1..Len(self.size) : p[i] < 0 \/ p[i] >= self.size[i]

\* the window of the grid or view t lies inside the zero-offset grid G
WindowInside(t) ==
    t = "V" => \A i \in 1..Len(G.size) :
                   V.offset[i] >= 0 /\ V.offset[i] + V.size[i] <= G.size[i]

\* C1: write-read consistency: when set(p, v) has returned true on a grid or
\* a view, a get(p) made next returns Some(v).
C1_WriteRead ==
    (last.op = "set" /\ last.ret_bool)
        => get(Target(last.target), heap, last.p) = [panic |-> FALSE, ret |-> Some(last.val)]

\* C1 witness: a set through a view with a non-zero offset has returned true.
C1_Witness ==
    /\ last.op = "set"
    /\ last.ret_bool
    /\ last.target = "V"
    /\ V.offset = <<1, 1>>
    /\ in_bounds(V, last.p)

\* C2 as claimed: for every grid and every view(offset, size), with any
\* offset and size, in_bounds(p) is true exactly when get(p) returns Some.
C2_BoundsConsistency_AnyView ==
    last.op = "get"
        => (in_bounds(Target(last.target), last.p) <=> (~last.panic /\ last.ret_opt # None))

\* C2 amended: for every grid built by a constructor, and every view of it
\* whose window lies inside the grid (offset >= 0 and offset + size <= size
\* of the grid, componentwise), in_bounds(p) is true exactly when get(p)
\* returns Some.
C2_BoundsConsistency ==
    (last.op = "get" /\ WindowInside(last.target))
        => (in_bounds(Target(last.target), last.p) <=> (~last.panic /\ last.ret_opt # None))

\* C2 witness: a get on a view with a non-zero offset inside the grid has
\* returned Some.
C2_Witness ==
    /\ last.op = "get"
    /\ last.target = "V"
    /\ WindowInside("V")
    /\ V.offset = <<1, 1>>
    /\ last.ret_opt # None

\* C3 as claimed: on a zero-offset grid, offset_to_point(data_offset(p)) = p
\* for every in-bounds p.
C3_RoundTrip ==
    (last.op = "offset_to_point" /\ last.target = "G"
        /\ G.offset = Point_default(Len(G.size)) /\ in_bounds(G, last.p))
        => (~last.panic /\ last.ret_pt = last.p)

\* C4: view independence: a set call on the view V = G.view(offset, size)
\* leaves the result of every G.get(q) as it was before the call, so a
\* sequence of them does.
C4_ViewIndependence ==
    [][(last'.op = "set" /\ last'.target = "V")
          => /\ G' = G
             /\ \A q \in Probes(G) : get(G', heap', q) = get(G, heap, q)]_vars

\* C4 witness: a set through the view has changed the view's storage, which
\* now differs from the grid's.
C4_Witness ==
    /\ last.op = "set"
    /\ last.target = "V"
    /\ last.ret_bool
    /\ data(V, heap) # data(G, heap)
    /\ get(V, heap, last.p).ret = Some(last.val)

\* C5: view window: for V = G.view(o, s) whose window lies inside the
\* zero-offset grid G, V.get(p) = G.get(p + o) for every p with 0 <= p < s.
C5_ViewWindow ==
    (last.op = "get" /\ last.target = "V" /\ nsets = 0 /\ WindowInside("V")
        /\ \A i \in 1..2 : 0 <= last.p[i] /\ last.p[i] < V.size[i])
        => /\ ~last.panic
           /\ last.ret_opt # None
           /\ last.ret_opt = get(G, heap, Point_add(last.p, V.offset)).ret

\* C5 witness: the view at offset (1,1), size (2,2) of the 4x4 grid whose
\* elements are 1..16: get((0,0)) on the view is the grid's element (1,1).
C5_Witness ==
    /\ built.fn = "from_data"
    /\ built.data = Ramp(16)
    /\ built.stride = 4
    /\ G.size = <<4, 4>>
    /\ V.present
    /\ V.offset = <<1, 1>>
    /\ V.size = <<2, 2>>
    /\ last.op = "get"
    /\ last.target = "V"
    /\ last.p = <<0, 0>>
    /\ last.ret_opt = Some(6)
    /\ get(G, heap, <<1, 1>>).ret = Some(6)

\* the grid a PointIter was made for has two dimensions of extent >= 1
Iter2D == iter.present /\ Len(iter.size) = 2 /\ iter.size[1] >= 0 /\ iter.size[2] >= 0

\* C6: enumeration of a 2D grid of size (w, h), w, h >= 1: the k-th point
\* yielded (k from 0) is (k div h, k mod h), which makes the points distinct,
\* in bounds and in lexicographic order with p[1] fastest; no more than w*h
\* points are yielded, and None is returned only after all w*h.
C6_Enumeration ==
    Iter2D =>
        LET w == iter.size[1] + 1
            h == iter.size[2] + 1
        IN  /\ Len(yielded) <= w * h
            /\ \A k \in 1..Len(yielded) : yielded[k] = <<(k - 1) \div h, (k - 1) % h>>
            /\ nones > 0 => Len(yielded) = w * h

\* C6 witness: the grid from_data([0,0,0,0], 2) has yielded (0,0), (0,1),
\* (1,0), (1,1) and then None.
C6_Witness ==
    /\ built.fn = "from_data"
    /\ built.data = <<0, 0, 0, 0>>
    /\ built.stride = 2
    /\ ~V.present
    /\ iter.present
    /\ yielded = <<(<<0, 0>>), (<<0, 1>>), (<<1, 0>>), (<<1, 1>>)>>
    /\ nones = 1

\* C7 as claimed: for a grid or view whose extents are all >= 0, an extent
\* of 0 included, points_iter() yields exactly product(size) points and
\* returns None from then on.
C7_Termination ==
    (iter.present /\ \A i \in 1..Len(iter.size) : iter.size[i] + 1 >= 0)
        => /\ Len(yielded) <= Cells(iter)
           /\ nones > 0 => Len(yielded) = Cells(iter)

\* C8: out-of-bounds access is a no-op: for a point p with a component
\* outside [0, size[i]), get(p) returns None and set(p, v) returns false,
\* neither panics, and the failed set leaves the storage and the grid or view
\* as they were.
C8_OutOfBoundsNoOp ==
    [][(last'.op \in {"get", "set"} /\ last.op = "none"
            /\ OutOfBounds(Target(last'.target), last'.p))
          => /\ ~last'.panic
             /\ ~panicked'
             /\ last'.ret_opt = None
             /\ last'.ret_bool = FALSE
             /\ heap' = heap
             /\ G' = G
             /\ V' = V]_vars

\* C8 witness: a set at a point outside the bounds whose data_offset is a
\* valid storage index has returned false.
C8_Witness ==
    /\ last.op = "set"
    /\ ~last.ret_bool
    /\ OutOfBounds(Target(last.target), last.p)
    /\ ~data_offset(Target(last.target), last.p).overflow
    /\ data_offset(Target(last.target), last.p).index < Len(data(Target(last.target), heap))

\* the index (p + offset)[0] + sum over i >= 1 of (p + offset)[i] * stride[i]
C9_Index(self, p) ==
    (p[1] + self.offset[1])
    + (p[2] + self.offset[2]) * self.stride[2]
    + (IF Len(p) = 3 THEN (p[3] + self.offset[3]) * self.stride[3] ELSE 0)

\* C9: storage-index invariant: for an owning grid made by from_size, the
\* 2D from_data, from_lines or from_bytes and every p with 0 <= p[i] < size[i],
\* data_offset(p) is (p+offset)[0] + sum (p+offset)[i] * stride[i] and is
\* less than the length of the storage.
C9_StorageIndex ==
    (last.op = "data_offset" /\ last.target = "G"
        /\ \A i \in 1..Len(G.size) : 0 <= last.p[i] /\ last.p[i] < G.size[i])
        => /\ ~last.panic
           /\ last.ret_off = C9_Index(G, last.p)
           /\ last.ret_off < Len(data(G, heap))

\* C9 witness: data_offset of the last in-bounds point of a from_bytes grid
\* of two rows or more, whose buffer is longer than width * height.
C9_Witness ==
    /\ built.fn = "from_bytes"
    /\ last.op = "data_offset"
    /\ G.size[1] >= 1
    /\ G.size[2] >= 2
    /\ last.p = <<G.size[1] - 1, G.size[2] - 1>>
    /\ last.ret_off >= G.size[1] * G.size[2]
    /\ last.ret_off < Len(data(G, heap))

\* C10 as claimed: from_size(size), N = 2 and N = 3, allocates product(size)
\* default elements and derives the strides stride[0] = 1, stride[i] =
\* size[i-1] * stride[i-1]; every in-bounds get returns the default value.
C10_FromSize ==
    (built.fn = "from_size" /\ nsets = 0)
        => /\ G.present
           /\ G.size = built.size
           /\ Len(data(G, heap)) = Product(built.size)
           /\ \A k \in 1..Len(data(G, heap)) : data(G, heap)[k] = Default
           /\ \A i \in 1..Len(built.size) : G.stride[i] = RowMajor(built.size, i)
           /\ (last.op = "get" /\ in_bounds(G, last.p)) => last.ret_opt = Some(Default)

\* C11 as claimed: the generic from_data, handed the row-major strides of a
\* shape s and a buffer of product(s) elements, yields a grid of size s, and
\* every element of the buffer is the data_offset of some in-bounds point.
C11_GenericFromData ==
    (built.fn = "GridView::from_data" /\ Len(built.data) = Product(built.size)
        /\ \A i \in 1..Len(built.size) : built.size[i] >= 1)
        => /\ G.present
           /\ G.size = built.size
           /\ \A k \in 0..(Len(built.data) - 1) :
                  \E p \in Probes(G) : in_bounds(G, p) /\ data_offset(G, p).index = k

\* C12: the 2D from_data(data, stride), stride >= 1: a zero-offset grid of
\* size (stride, data.len() div stride) with strides [1, stride];
\* get((x, y)) is data[x + y * stride] for every in-bounds (x, y), and no
\* in-bounds point reaches the data.len() mod stride trailing elements.
C12_From2DData ==
    (built.fn = "from_data" /\ built.stride >= 1 /\ nsets = 0)
        => LET len == Len(built.data)
               h == len \div built.stride
           IN  /\ G.present
               /\ G.offset = <<0, 0>>
               /\ G.size = <<built.stride, h>>
               /\ G.stride = <<1, built.stride>>
               /\ data(G, heap) = built.data
               /\ \A p \in Probes(G) : in_bounds(G, p) =>
                      /\ data_offset(G, p).index < len - (len % built.stride)
                      /\ get(G, heap, p).ret = Some(built.data[p[1] + p[2] * built.stride + 1])
               /\ (last.op = "get" /\ in_bounds(G, last.p)) =>
                      /\ ~last.panic
                      /\ last.ret_opt = Some(built.data[last.p[1] + last.p[2] * built.stride + 1])

\* C12 witness: from_data of the 5 elements 1..5 with stride 2 is 2 x 2,
\* get((1, 1)) has returned the element at index 3, and the trailing fifth
\* element is the data_offset of no in-bounds point.
C12_Witness ==
    /\ built.fn = "from_data"
    /\ built.data = Ramp(5)
    /\ built.stride = 2
    /\ G.size = <<2, 2>>
    /\ last.op = "get"
    /\ last.p = <<1, 1>>
    /\ last.ret_opt = Some(4)
    /\ \A p \in Probes(G) : in_bounds(G, p) => data_offset(G, p).index # 4

\* C13: from_lines(lines, f), lines non-empty with longest line of length
\* w >= 1: the grid is w wide and lines.len() high, get((c, r)) is f(byte c
\* of line r) when c < len(line r) and the default value when c >= len(line r).
C13_FromLines ==
    (built.fn = "from_lines" /\ Len(built.lines) >= 1 /\ nsets = 0
        /\ \E r \in 1..Len(built.lines) : Len(built.lines[r]) >= 1)
        => /\ G.present
           /\ G.size[2] = Len(built.lines)
           /\ \A r \in 1..Len(built.lines) : Len(built.lines[r]) <= G.size[1]
           /\ \E r \in 1..Len(built.lines) : Len(built.lines[r]) = G.size[1]
           /\ \A p \in Probes(G) : in_bounds(G, p) =>
                  LET line == built.lines[p[2] + 1]
                  IN  get(G, heap, p).ret =
                          Some(IF p[1] < Len(line) THEN Transform[line[p[1] + 1]] ELSE Default)
           /\ (last.op = "get" /\ in_bounds(G, last.p)) =>
                  LET line == built.lines[last.p[2] + 1]
                  IN  /\ ~last.panic
                      /\ last.ret_opt =
                             Some(IF last.p[1] < Len(line) THEN Transform[line[last.p[1] + 1]]
                                  ELSE Default)

\* C13 witness: the lines ["AB", "C"]: the grid is 2 x 2, get((0, 1)) is
\* f('C') and get((1, 1)) has returned the pad value.
C13_Witness ==
    /\ built.fn = "from_lines"
    /\ built.lines = <<(<<ContentByte(0), ContentByte(1)>>), (<<ContentByte(2)>>)>>
    /\ G.size = <<2, 2>>
    /\ get(G, heap, <<0, 1>>).ret = Some(Transform[ContentByte(2)])
    /\ last.op = "get"
    /\ last.p = <<1, 1>>
    /\ last.ret_opt = Some(Default)

\* the buffer d is R rows of L bytes each, separated by NewLine, with or
\* without a NewLine after the last row
Rows(d, L, R) ==
    /\ Len(d) \in {R * (L + 1) - 1, R * (L + 1)}
    /\ \A k \in 1..Len(d) : (d[k] = NewLine) <=> (k % (L + 1) = 0)

\* C14: from_bytes(data), data being R >= 1 rows of the same length L >= 1
\* separated by '\n', with or without a trailing '\n': the grid has size
\* (L, R) and stride L + 1, get((x, y)) is byte x of row y for every
\* in-bounds (x, y), and no in-bounds point maps to a delimiter.
C14_FromBytes ==
    \A L \in 1..Len(built.data), R \in 1..Len(built.data) :
        (built.fn = "from_bytes" /\ Rows(built.data, L, R) /\ nsets = 0)
            => /\ G.present
               /\ G.size = <<L, R>>
               /\ G.stride = <<1, L + 1>>
               /\ \A p \in Probes(G) : in_bounds(G, p) =>
                      /\ get(G, heap, p).ret = Some(built.data[p[2] * (L + 1) + p[1] + 1])
                      /\ built.data[data_offset(G, p).index + 1] # NewLine
               /\ (last.op = "get" /\ in_bounds(G, last.p)) =>
                      /\ ~last.panic
                      /\ last.ret_opt = Some(built.data[last.p[2] * (L + 1) + last.p[1] + 1])
                      /\ last.ret_opt # Some(NewLine)

\* C14 witness: two rows of one byte with a trailing delimiter; get((0, 1))
\* has returned the byte of the second row.
C14_Witness ==
    /\ built.fn = "from_bytes"
    /\ built.data = <<ContentByte(0), NewLine, ContentByte(2), NewLine>>
    /\ G.size = <<1, 2>>
    /\ last.op = "get"
    /\ last.p = <<0, 1>>
    /\ last.ret_opt = Some(ContentByte(2))

\* C15 as claimed: view(offset, size) makes no copy of the storage: the
\* view reads the buffer of its source and has its stride; a buffer is
\* allocated only by a set through a view that does not own its storage.
C15_ViewSharesStorage ==
    [][/\ (~V.present /\ V'.present)
            => (V'.grid.buf = G.grid.buf /\ heap' = heap /\ V'.stride = G.stride)
       /\ Len(heap') > Len(heap)
            => (last'.op = "set" /\ ~Target(last'.target).grid.owned)]_vars

\* what the subscripts and get agree on at the point of the last call: they
\* return the same element, or get returns no element and the subscript
\* aborts
AgreesWithGet ==
    LET g == get(Target(last.target), heap, last.p)
    IN  IF g.panic \/ g.ret = None THEN last.panic
        ELSE ~last.panic /\ last.ret_opt = g.ret

\* C16 as claimed: in bounds view[p], view[(x, y)] and get(p) are the same
\* element; out of bounds get returns None and the tuple subscript returns
\* the storage cell at the index data_offset selects, aborting only if that
\* index is outside the storage.
C16_CheckedUnchecked_AnyBuild ==
    LET self == Target(last.target)
        d == data_offset(self, last.p)
    IN  /\ (last.op \in {"index_point", "index_tuple"} /\ in_bounds(self, last.p))
              => AgreesWithGet
        /\ (last.op = "get" /\ OutOfBounds(self, last.p))
              => (~last.panic /\ last.ret_opt = None)
        /\ (last.op = "index_tuple" /\ OutOfBounds(self, last.p))
              => IF d.index < Len(data(self, heap))
                 THEN ~last.panic /\ last.ret_opt = Some(data(self, heap)[d.index + 1])
                 ELSE last.panic

\* C16 amended: as claimed, except that out of bounds the tuple subscript
\* also aborts when the addition of data_offset overflows in a build with
\* overflow checks (a negative first component with a positive rest).
C16_CheckedUnchecked ==
    LET self == Target(last.target)
        d == data_offset(self, last.p)
    IN  /\ (last.op \in {"index_point", "index_tuple"} /\ in_bounds(self, last.p))
              => AgreesWithGet
        /\ (last.op = "get" /\ OutOfBounds(self, last.p))
              => (~last.panic /\ last.ret_opt = None)
        /\ (last.op = "index_tuple" /\ OutOfBounds(self, last.p))
              => IF d.index < Len(data(self, heap)) /\ ~(d.overflow /\ overflow_checks)
                 THEN ~last.panic /\ last.ret_opt = Some(data(self, heap)[d.index + 1])
                 ELSE last.panic

\* C16 witness: the tuple subscript at a point outside the bounds of a view
\* has returned a storage cell, where get returns None.
C16_Witness ==
    /\ last.op = "index_tuple"
    /\ last.target = "V"
    /\ OutOfBounds(V, last.p)
    /\ ~last.panic
    /\ last.ret_opt # None
    /\ get(V, heap, last.p).ret = None

\* the vector with +1 (o < N) or -1 (o >= N) at index o mod N, 0 elsewhere
UnitVector(n, o) ==
    [i \in 1..n |-> IF i - 1 = o % n THEN (IF o < n THEN 1 ELSE -1) ELSE 0]

\* what C17 says of orientation_delta(o), o in [0, 2N)
C17_OrientationDelta ==
    (args.fn = "orientation_delta" /\ result.done /\ args.o < 2 * args.n)
        => /\ ~result.panic
           /\ result.point = UnitVector(args.n, args.o)
           /\ \A o2 \in 0..(2 * args.n - 1) :
                  o2 # args.o => orientation_delta(args.n, o2).point # result.point
           /\ args.o < args.n
                  => orientation_delta(args.n, args.o + args.n).point = Point_neg(result.point)

\* C17 as claimed: for every N and every o in [0, 2N), orientation_delta(o)
\* is the unit vector of direction o, the 2N results are pairwise distinct,
\* orientation_delta(o + N) is the negation of orientation_delta(o), and
\* Direction::new(o).delta() equals orientation_delta(o).
C17_UnitVectors_AnyN ==
    /\ C17_OrientationDelta
    /\ (args.fn = "Direction::new" /\ result.done /\ args.o < 2 * args.n)
          => /\ ~result.panic
             /\ result.point = orientation_delta(args.n, args.o).point

\* C17 amended: the same, with Direction::new(o).delta() claimed for the N
\* whose 2N fits a u8 (1 <= N <= 127) only.
C17_UnitVectors ==
    /\ C17_OrientationDelta
    /\ (args.fn = "Direction::new" /\ result.done /\ args.o < 2 * args.n
            /\ 2 * args.n < U8Modulus)
          => /\ ~result.panic
             /\ result.point = orientation_delta(args.n, args.o).point

\* C17 witness: Direction::<2>::new(3).delta() has returned (0, -1), which is
\* orientation_delta(3) and the negation of orientation_delta(1).
C17_Witness ==
    /\ args = [fn |-> "Direction::new", n |-> 2, o |-> 3]
    /\ result.done
    /\ result.point = <<0, -1>>
    /\ orientation_delta(2, 3).point = <<0, -1>>
    /\ orientation_delta(2, 1).point = <<0, 1>>

\* the sequence s without its element at position k (from 1)
Without(s, k) == SubSeq(s, 1, k - 1) \o SubSeq(s, k + 1, Len(s))

\* C18: a StackVec has fixed capacity N: after every push, try_push, pop and
\* remove, 0 <= len <= N and the visible slice is the live elements (all
\* initialized; a push appends, a pop takes the last, a remove takes one out
\* and keeps the order of the rest); try_push on a full vector returns
\* Err(val) and pop on an empty one returns None, both leaving it unchanged.
C18_FixedCapacity ==
    [][LET n == Len(sv.data)
           before == as_ref(sv)
           after == as_ref(sv')
       IN  /\ Len(sv'.data) = n
           /\ 0 <= sv'.len /\ sv'.len <= n
           /\ Len(after) = sv'.len
           /\ \A i \in 1..sv'.len : after[i] # None
           /\ (result'.op = "push" /\ ~result'.panic)
                  => after = Append(before, Some(result'.val))
           /\ (result'.op = "push" /\ result'.panic) => (sv.len = n /\ sv' = sv)
           /\ result'.op = "try_push"
                  => IF sv.len = n
                     THEN result'.ret = Err(result'.val) /\ sv' = sv
                     ELSE result'.ret = Ok /\ after = Append(before, Some(result'.val))
           /\ result'.op = "pop"
                  => IF sv.len = 0
                     THEN result'.ret = None /\ sv' = sv
                     ELSE /\ result'.ret = Some(before[sv.len][1])
                          /\ after = SubSeq(before, 1, sv.len - 1)
           /\ result'.op = "remove"
                  => IF result'.index >= sv.len
                     THEN result'.ret = None /\ sv' = sv
                     ELSE /\ result'.ret = Some(before[result'.index + 1][1])
                          /\ after = Without(before, result'.index + 1)]_vars

\* C18 witness: try_push on a full vector of capacity 2 or more has returned
\* Err with the rejected value.
C18_Witness ==
    /\ sv.present
    /\ result.done
    /\ result.op = "try_push"
    /\ result.ret = Err(result.val)
    /\ Len(sv.data) >= 2
    /\ sv.len = Len(sv.data)
    /\ \A i \in 1..sv.len : sv.data[i] # None

\* the number of decimal digits of v; 0 for v = 0
RECURSIVE NumDigits(_)
NumDigits(v) == IF v = 0 THEN 0 ELSE 1 + NumDigits(v \div 10)

\* C19 as claimed: for every v of at most as many decimal digits as a Bcd
\* has nibbles, v = 0 included, Bcd::from(v) holds decimal digit i of v in
\* nibble i (the least significant in the lowest), its len() is the number
\* of decimal digits of v (0 for v = 0), and u64::from of it is v.
C19_BcdRoundTrip ==
    (args.fn = "Bcd::from" /\ result.done)
        => /\ ~result.panic
           /\ \A i \in 0..(BcdNibbles - 1) :
                  (result.bcd \div (16 ^ i)) % 16 = (args.v \div (10 ^ i)) % 10
           /\ result.len = NumDigits(args.v)
           /\ result.back # None => result.back = Some(args.v)

\* the string between its first and its last character outside drop
Stripped(str, drop) ==
    LET keep == {i \in 1..Len(str) : str[i] \notin drop}
    IN  IF keep = {} THEN <<>>
        ELSE SubSeq(str, CHOOSE i \in keep : \A j \in keep : i <= j,
                         CHOOSE i \in keep : \A j \in keep : i >= j)

\* equality of answers as C20 states it
C20_Equal(l, r) ==
    \/ l.tag = "Num" /\ r.tag = "Num" /\ l.n = r.n
    \/ l.tag = "Str" /\ r.tag = "Str"
          /\ Stripped(l.s, (9..13) \cup {Space}) = Stripped(r.s, (9..13) \cup {Space})

\* the solver run on the example text without its leading and trailing
\* newlines succeeds with an answer equal to the expected one
C20_Passes(equal(_, _)) ==
    LET r == Part_run(args.solver, Stripped(args.example[1], {NewLine}))
    IN  r.ok /\ equal(r.answer, args.expected[1])

\* C20 as claimed: Part::check, of either crate, handed an example, returns
\* Ok exactly when the part declares no expected result or the solver run on
\* the example text (leading and trailing newlines trimmed) returns an answer
\* equal to the expected one, Str answers being compared after trimming
\* whitespace; it returns an error otherwise.
C20_Check_BothCrates ==
    (args.fn = "Part::check" /\ result.done /\ args.example # None)
        => (result.ok <=> (args.expected = None \/ C20_Passes(C20_Equal)))

\* equality of answers with Str answers compared as they are
C20_EqualExact(l, r) == l.tag = r.tag /\ l.n = r.n /\ l.s = r.s

\* C20 amended: Part::check(example) of aoc-base is as claimed; check() of
\* src/lib.rs returns Ok exactly when the day declares no example, or the
\* part no expected result, or the solver run on the trimmed example returns
\* an answer equal to the expected one with Str answers compared exactly.
C20_Check ==
    (args.fn = "Part::check" /\ result.done)
        => IF args.crate = "aoc-base"
           THEN result.ok <=> (args.expected = None \/ C20_Passes(C20_Equal))
           ELSE result.ok <=> (args.example = None \/ args.expected = None
                                  \/ C20_Passes(C20_EqualExact))

\* C20 witness: check of aoc-base on the example "\nA " with a solver that
\* returns its input and the expected answer Str("A") has returned Ok.
C20_Witness ==
    /\ args.fn = "Part::check"
    /\ args.crate = "aoc-base"
    /\ args.solver = "echo"
    /\ args.example = Some(<<NewLine, ContentByte(0), Space>>)
    /\ args.expected = Some(Str(<<ContentByte(0)>>))
    /\ result.done
    /\ result.ok

\* C24 as claimed: on an owning grid made by from_size (N = 2, 3) or a 2D
\* constructor, distinct in-bounds points have distinct storage indices, and
\* a set(p, v) that returns true leaves get(q) as it was for every in-bounds
\* q other than p.
C24_SetOneCell ==
    [][(last'.op = "set" /\ last'.target = "G" /\ last'.ret_bool)
          => /\ \A q \in Probes(G) :
                    (in_bounds(G, q) /\ q # last'.p)
                        => /\ data_offset(G, q).index # data_offset(G, last'.p).index
                           /\ get(G', heap', q) = get(G, heap, q)
             /\ get(G', heap', last'.p).ret = Some(last'.val)]_vars

\* the operator op was applied to a direction of a dimension whose
\* directions exist (2N fits u8 and is not 0), and returned
Rotated(op) ==
    /\ args.fn \in {"Direction::add", "Direction::sub", "Direction::neg"}
    /\ result.done
    /\ ~result.panic
    /\ result.op = op

\* C29 as claimed: d + k is the direction of value (v + k) mod 2N, d - k
\* that of value (v - k) mod 2N, (d + k) - k is d; -d is the direction of
\* value (v + N) mod 2N and -(-d) is d.
C29_Rotation ==
    /\ Rotated("add")
          => /\ result.d = (result.v + args.k) % (2 * args.n)
             /\ result.back # None => result.back = Some(result.v)
    /\ Rotated("sub") => result.d = (result.v - args.k) % (2 * args.n)
    /\ Rotated("neg")
          => /\ result.d = (result.v + args.n) % (2 * args.n)
             /\ result.back # None => result.back = Some(result.v)

\* C28: remove(index) with index < len() returns the element that was at
\* position index, decrements len() by one and shifts the elements after index
\* down by one, those before it staying; with index >= len() it returns None
\* and leaves the vector unchanged.
C28_Remove ==
    [][result'.op = "remove"
          => LET index == result'.index
                 before == as_ref(sv)
                 after == as_ref(sv')
             IN  IF index < sv.len
                 THEN /\ result'.ret = before[index + 1]
                      /\ sv'.len = sv.len - 1
                      /\ Len(after) = Len(before) - 1
                      /\ \A i \in 1..Len(after) :
                            after[i] = IF i <= index THEN before[i] ELSE before[i + 1]
                 ELSE /\ result'.ret = None
                      /\ sv' = sv]_vars

\* C28 witness: remove(0) has returned the first of three elements that were
\* not all equal, and the two after it have shifted down in their order.
C28_Witness ==
    /\ sv.present
    /\ result.done
    /\ result.op = "remove"
    /\ result.index = 0
    /\ result.ret = Some(1)
    /\ sv.len = 2
    /\ as_ref(sv) = <<Some(2), Some(1)>>

\* the operator of Bcd named fn has been applied to Bcd::from(a) and b, and
\* the result converted back
Computed(fn) ==
    /\ args.fn = fn
    /\ result.done
    /\ ~result.panic
    /\ result.back # None

\* C26 as claimed: for 0 <= b <= a of at most BcdNibbles digits and b a
\* u32, Bcd::from(a) - b returns, and u64::from of it is a - b.
C26_BcdSub ==
    /\ (args.fn = "Bcd::sub" /\ result.done) => ~result.panic
    /\ Computed("Bcd::sub") => result.back = Some(args.a - args.b)

\* C27 as claimed: for a >= 0 and a u32 b with a + b of at most BcdNibbles
\* digits, Bcd::from(a) + b returns, and u64::from of it is a + b.
C27_BcdAdd ==
    /\ (args.fn = "Bcd::add" /\ result.done) => ~result.panic
    /\ Computed("Bcd::add") => result.back = Some(args.a + args.b)

\* C25: a view's offset is in the coordinates of the storage, not relative
\* to the view it was sliced from: with V = G.view(o1, s1) of the zero-offset
\* grid G and V2 = V.view(o2, s2), V2.get(p) is G.get(p + o2) for every p in
\* V2's bounds that lands inside G, and to_local(to_global(p)) is p on every
\* view.
C25_ViewOfView ==
    /\ last.op = "view"
          => \A p \in Probes(V2) :
                LET q == Point_add(p, last.p)
                IN  (in_bounds(V2, p) /\ in_bounds(G, q))
                        => /\ ~get(V2, heap, p).panic
                           /\ get(V2, heap, p).ret # None
                           /\ get(V2, heap, p).ret = get(G, heap, q).ret
    /\ last.op = "to_local" => last.ret_pt = last.p

\* C25 witness: V.view((1, 0), (2, 2)) of a view V at offset (1, 1) has
\* returned a view whose cell (1, 1) is the cell (2, 1) of G, which is not
\* the cell (3, 2) a relative offset would reach.
C25_Witness ==
    /\ last.op = "view"
    /\ last.p = <<1, 0>>
    /\ V.offset = <<1, 1>>
    /\ V2.size = <<2, 2>>
    /\ get(V2, heap, <<1, 1>>).ret # None
    /\ get(V2, heap, <<1, 1>>).ret = get(G, heap, <<2, 1>>).ret
    /\ get(G, heap, <<3, 2>>).ret # None
    /\ get(V2, heap, <<1, 1>>).ret # get(G, heap, <<3, 2>>).ret

\* the entries of a filter, and the parts of an entry
Entries(f) == split(f, Comma)
Fields(e) == split(e, Dot)

\* the entry is "d", or "d.p" with p a part, for the day d
NamesDay(e, d) == Len(Fields(e)) = 1 /\ IsDigits(e) /\ DecimalValue(e, 0) = d
NamesPart(e, d, p) ==
    /\ Len(Fields(e)) = 2
    /\ IsDigits(Fields(e)[1]) /\ DecimalValue(Fields(e)[1], 0) = d
    /\ IsDigits(Fields(e)[2]) /\ DecimalValue(Fields(e)[2], 0) = p

\* the entry lists the day d, whatever follows the day
Lists(e, d) == IsDigits(Fields(e)[1]) /\ DecimalValue(Fields(e)[1], 0) = d

\* the position of the last entry of the filter that lists day d, or 0
LastListing(f, d) ==
    LET at == {k \in 1..Len(Entries(f)) : Lists(Entries(f)[k], d)}
    IN  IF at = {} THEN 0 ELSE CHOOSE k \in at : \A j \in at : j <= k

\* C30 as claimed: Checker::new accepts an empty or blank filter, and then
\* run_and_display runs every part of every day; with any other filter it
\* runs part p of day d only if an entry lists d; when the last entry for d
\* is "d" it runs both parts, when it is "d.q" it runs part q only.
C30_Filter ==
    LET f == args.filter
    IN  /\ (args.fn = "Checker::new" /\ result.done /\ trim(f) = <<>>)
              => ~result.err /\ ~result.panic
        /\ (args.fn = "Checker::new" /\ result.done /\ result.called)
              => LET k == LastListing(f, result.d)
                 IN  IF trim(f) = <<>> THEN result.ran
                     ELSE /\ result.ran => k # 0
                          /\ (k # 0 /\ NamesDay(Entries(f)[k], result.d)) => result.ran
                          /\ \A q \in 1..2 :
                                (k # 0 /\ NamesPart(Entries(f)[k], result.d, q))
                                    => (result.ran <=> result.p = q)

\* the verdicts of the service
Verdicts == {Correct, TooHigh, TooLow, Invalid}

\* the line of the answer log for a verdict on the answer r of part p
LogLine(p, ty, r) == DecimalString(p) \o <<VerdictChar(ty)>> \o r \o <<NewLine>>

\* s ends with t
EndsWith(str, t) == Len(str) >= Len(t) /\ SubSeq(str, Len(str) - Len(t) + 1, Len(str)) = t

\* the verdicts received before on the answer r of part p
Received(p, r) == {h \in traffic.posts : h.p = p /\ h.answer = r}

\* C21 as claimed: check_answer submits only when the result is neither
\* Num(0) nor the empty string, no correct answer is known for the part (none
\* was received for it, none is on the page of the day) and the result is not
\* an answer a TooHigh, TooLow or Invalid verdict was recorded for; otherwise
\* it returns Invalid, Correct, the recorded kind or Incorrect(correct answer)
\* without submitting.
C21_SubmitOnlyWhenNew ==
    [][LET p == result'.p
           res == result'.res
           known == \/ traffic'.gets >= 1 /\ args.solved >= p
                    \/ \E h \in traffic.posts : h.p = p /\ h.ty = Correct
           recorded == \E h \in Received(p, to_string(res)) : h.ty \in Verdicts \ {Correct}
           new == res # Num(0) /\ res # Str(<<>>) /\ ~known /\ ~recorded
       IN  /\ result'.posted => new
           /\ (~new /\ ~result'.err)
                 => /\ ~result'.posted
                    /\ \/ result'.ret \in Verdicts
                       \/ result'.ret[1] = "Incorrect"]_vars

\* C22 as claimed: a verdict Correct, TooHigh, TooLow or Invalid received for
\* a submitted result is appended to the answer log, and every later
\* check_answer with the same result for the same part returns that verdict
\* without submitting; a verdict Unknown writes nothing to the log.
C22_VerdictCaching ==
    [][LET p == result'.p
           r == to_string(result'.res)
       IN  /\ (result'.posted /\ ~result'.err /\ result'.ret \in Verdicts)
                 => /\ output_file' # None
                    /\ EndsWith(output_file'[1], LogLine(p, result'.ret, r))
                    /\ output_file # None
                          => output_file'[1] = output_file[1] \o LogLine(p, result'.ret, r)
           /\ \A h \in Received(p, r) :
                 h.ty \in Verdicts
                     => ~result'.err /\ ~result'.posted /\ result'.ret = h.ty
           /\ (result'.ret = Unknown /\ ~result'.got) => output_file' = output_file]_vars

\* the log fetch_submitted_answers leaves for the answers on the page
RECURSIVE FetchedLog(_)
FetchedLog(n) ==
    IF n = 0 THEN <<>> ELSE FetchedLog(n - 1) \o LogLine(Min(n, 2), Correct, Truth[n])

\* C23: check_answer calls fetch_submitted_answers only when there is no log
\* file; after a fetch with a client that succeeds the file exists, with one
\* '=' line per answer of the page, the first for part 1 and the rest for part
\* 2, or empty; the page is fetched successfully at most once, and the file
\* stays.
C23_FetchOnce ==
    [][/\ result'.fetched => output_file = None
       /\ result'.got
             => /\ args.client
                /\ output_file' # None
                /\ SubSeq(output_file'[1], 1, Len(FetchedLog(args.solved))) = FetchedLog(args.solved)
                /\ ~result'.posted => output_file'[1] = FetchedLog(args.solved)
       /\ output_file # None => (output_file' # None /\ ~result'.fetched)
       /\ traffic'.gets <= 1]_vars

\* C23 witness: both parts were solved before; the first check_answer fetched
\* the page and left the two '=' lines, and a later one did not fetch.
C23_Witness ==
    /\ args.fn = "check_answer"
    /\ args.client
    /\ args.solved = 2
    /\ traffic.gets = 1
    /\ traffic.checks >= 2
    /\ result.done
    /\ ~result.fetched
    /\ output_file # None
    /\ lines(output_file[1]) = <<DecimalString(1) \o <<Equals>> \o Truth[1],
                                 DecimalString(2) \o <<Equals>> \o Truth[2]>>

====
